---- MODULE Spec2Model ----
(***************************************************************************)
(* State-machine model of bitcoinlib/wallets.py: the HD wallet engine      *)
(* (key tree, multisig composition, UTXO ledger, transaction composer).    *)
(*                                                                         *)
(* The store is the set of rows of each table.  A path string is modelled  *)
(* as the sequence of its '/'-separated levels, and a level as the pair    *)
(* (t, q): q is the last character when it is one of ' H h P p (else ""),  *)
(* t the characters before it.  This pairing is a bijection with the       *)
(* strings, so path equality in the model is string equality in the code.  *)
(***************************************************************************)
EXTENDS Integers, Sequences, FiniteSets, TLC

VARIABLES
    wallets,    \* rows of table wallets
    keys,       \* rows of table keys
    links,      \* rows of table key_multisig_children
    txs,        \* rows of table transactions
    outs,       \* rows of table transaction_outputs
    ins,        \* rows of table transaction_inputs
    balances,   \* HDWallet._balances of the open wallet objects: wallet id -> network -> value
    last,       \* what the last call did: operation, arguments, result, error
    given,      \* the key_list each multisig wallet was created with, by wallet id
    held,       \* the Transaction object the caller holds
    sessions,   \* number of store sessions that wallet_delete opened and did not close
    threads,    \* the sessions that run new_key step by step: position and local values
    calls       \* number of calls made so far

vars == <<wallets, keys, links, txs, outs, ins, balances, last, given, held, sessions, threads, calls>>

(***************************************************************************)
(* Bounds of the model.                                                    *)
(***************************************************************************)
MaxKeyCalls == 3
MaxMultisigCalls == 6
MaxPathInt == 45

(***************************************************************************)
(* Program constants.                                                      *)
(***************************************************************************)
DefaultPurpose == 44
MultisigPurpose == 45
AccountDepth == 3
AddressDepth == 5

Nil == 0 - 1
DEFAULT_NETWORK == "bitcoin"
Networks == {"bitcoin", "litecoin"}
Bip44Cointype(network) == IF network = "bitcoin" THEN 0 ELSE 2

Max(S) == CHOOSE x \in S : \A y \in S : y <= x
Min(S) == CHOOSE x \in S : \A y \in S : x <= y
NextId(rows) == IF rows = {} THEN 1 ELSE Max({r.id : r \in rows}) + 1
First(rows) == CHOOSE r \in rows : \A s \in rows : r.id <= s.id
Range(f) == {f[i] : i \in DOMAIN f}

RECURSIVE SumPairs(_)
SumPairs(S) ==
    IF S = {} THEN 0
    ELSE LET p == CHOOSE x \in S : TRUE
         IN p[2] + SumPairs(S \ {p})
SumValue(rows) == SumPairs({<<r.id, r.value>> : r \in rows})
SumBalance(rows) == SumPairs({<<r.id, r.balance>> : r \in rows})

(***************************************************************************)
(* PathCodec.                                                              *)
(***************************************************************************)
Lv(t, q) == [t |-> t, q |-> q]
HardenedMarks == {"'", "H", "h", "P", "p"}
LvM == Lv("m", "")
LvInt(n) == Lv(ToString(n), "")
LvHard(n) == Lv(ToString(n), "'")

\* the marker is appended to the level instead of replacing its last character
NormalizeLevelAppend(level) ==
    IF level.q \in HardenedMarks THEN Lv(level.t \o level.q, "'") ELSE level

NormalizeLevel(level) ==
    IF level.q \in HardenedMarks THEN Lv(level.t, "'") ELSE level

normalize_path(path) ==
    IF \E l \in 1..Len(path) : path[l].t = "" /\ path[l].q = ""
    THEN [err |-> TRUE, path |-> <<>>]
    ELSE [err |-> FALSE, path |-> [l \in 1..Len(path) |-> NormalizeLevel(path[l])]]

IsInt(t) == \E n \in 0..MaxPathInt : ToString(n) = t
IntOf(t) == CHOOSE n \in 0..MaxPathInt : ToString(n) = t

(***************************************************************************)
(* KeyLib: an HD key is identified by its seed (root) and derivation       *)
(* steps; public bytes do not depend on the private flag, the wif does.    *)
(***************************************************************************)
HDKey(root, segs, priv, kt, net) ==
    [root |-> root, segs |-> segs, priv |-> priv, kt |-> kt, net |-> net]
Depth(k) == Len(k.segs)
ChildIndex(k) == IF k.segs = <<>> THEN 0 ELSE k.segs[Len(k.segs)].i
PublicHex(k) == [t |-> "pub", root |-> k.root, segs |-> k.segs]
WifOf(k) == [t |-> "key", root |-> k.root, segs |-> k.segs, priv |-> k.priv]
P2pkhAddress(pub) == [t |-> "p2pkh", of |-> pub]

\* Lexicographic rank of raw public-key bytes: injective in the seed for
\* fixed derivation steps, and not monotone in the seed.
SegWeight(segs) == IF segs = <<>> THEN 0 ELSE 1 + (segs[Len(segs)].i % 2)
PubRank(pub) == ((pub.root * (1 + SegWeight(pub.segs))) % 5) + 5 * Len(pub.segs)

subkey_for_path(k, level, network) ==
    IF level \in {Lv("m", ""), Lv("M", "")} THEN [err |-> FALSE, key |-> k]
    ELSE IF ~IsInt(level.t) THEN [err |-> TRUE, key |-> k]
    ELSE IF level.q \in HardenedMarks /\ ~k.priv THEN [err |-> TRUE, key |-> k]
    ELSE [err |-> FALSE,
          key |-> HDKey(k.root,
                        Append(k.segs, [i |-> IntOf(level.t), h |-> level.q \in HardenedMarks]),
                        k.priv, k.kt, network)]

(***************************************************************************)
(* The store.                                                              *)
(***************************************************************************)
DB == [wallets |-> wallets, keys |-> keys, links |-> links,
       txs |-> txs, outs |-> outs, ins |-> ins]
EmptyDB == [wallets |-> {}, keys |-> {}, links |-> {}, txs |-> {}, outs |-> {}, ins |-> {}]

WalletRow(db, w) == CHOOSE r \in db.wallets : r.id = w
KeyRow(db, id) == CHOOSE r \in db.keys : r.id = id
HasKey(db, id) == \E r \in db.keys : r.id = id

\* HDWallet.__init__: the fields an open wallet object reads from its row
MainKeyRows(db, w) == {r \in db.keys : r.id = WalletRow(db, w).main_key_id}
DefaultAccountId(db, w) ==
    IF MainKeyRows(db, w) = {} THEN 0 ELSE First(MainKeyRows(db, w)).account_id

\* the store takes every row
KeyAcceptedAlways(db, row) == TRUE

\* KeyAccepted without the constraint on (wallet_id, path)
KeyAcceptedByWif(db, row) ==
    \A r \in db.keys : r.wallet_id = row.wallet_id => r.wif # row.wif

\* The uniqueness constraints of the store schema on table keys,
\* (wallet_id, path) and (wallet_id, wif): the commit of a row that breaks
\* one is rejected and the call raises.
KeyAccepted(db, row) ==
    \A r \in db.keys : r.wallet_id = row.wallet_id => (r.path # row.path /\ r.wif # row.wif)

(***************************************************************************)
(* HDWalletKey.from_key                                                    *)
(***************************************************************************)
NewKeyRow(db, wallet_id, k, account_id, network, change, purpose, parent_id, path, key_type) ==
    [id |-> NextId(db.keys), wallet_id |-> wallet_id, path |-> path, depth |-> Depth(k),
     purpose |-> purpose, account_id |-> account_id, change |-> change,
     address_index |-> ChildIndex(k), network_name |-> network, parent_id |-> parent_id,
     key_type |-> IF key_type = "" THEN "bip32" ELSE key_type,
     is_private |-> k.priv, public |-> PublicHex(k), wif |-> WifOf(k),
     address |-> P2pkhAddress(PublicHex(k)), used |-> FALSE, balance |-> 0]

AccountPath(purpose, network, account_id) ==
    <<LvM, LvHard(purpose), LvHard(Bip44Cointype(network)), LvHard(account_id)>>

\* the key is stored under the given path whatever its depth
FromKeyAnyDepth(db, wallet_id, k, account_id, network, change, purpose, parent_id, path, key_type) ==
    LET wk == {r \in db.keys : r.wallet_id = wallet_id
                                /\ (r.public = PublicHex(k) \/ r.wif = WifOf(k))}
        nk == NewKeyRow(db, wallet_id, k, account_id, network, change, purpose,
                        parent_id, path, key_type)
    IN  IF wk # {}
        THEN [db |-> db, err |-> FALSE, key_id |-> First(wk).id, hd |-> k]
        ELSE [db |-> [db EXCEPT !.keys = @ \cup {nk}], err |-> FALSE, key_id |-> nk.id, hd |-> k]

from_key(db, wallet_id, k, account_id, network, change, purpose, parent_id, path, key_type) ==
    LET keyexists == {r \in db.keys : r.wallet_id = wallet_id /\ r.wif = WifOf(k)}
        mismatch == key_type # "single" /\ Depth(k) # Len(path) - 1
        synth == path = <<LvM>> /\ Depth(k) = AccountDepth
        path2 == IF mismatch /\ synth THEN AccountPath(purpose, network, account_id) ELSE path
        wk == {r \in db.keys : r.wallet_id = wallet_id
                                /\ (r.public = PublicHex(k) \/ r.wif = WifOf(k))}
        nk == NewKeyRow(db, wallet_id, k, account_id, network, change, purpose,
                        parent_id, path2, key_type)
    IN  IF keyexists # {}
        THEN [db |-> db, err |-> FALSE, key_id |-> First(keyexists).id, hd |-> k]
        ELSE IF mismatch /\ ~synth
        THEN [db |-> db, err |-> TRUE, key_id |-> 0, hd |-> k]
        ELSE IF wk # {}
        THEN [db |-> db, err |-> FALSE, key_id |-> First(wk).id, hd |-> k]
        ELSE IF ~KeyAccepted(db, nk)
        THEN [db |-> db, err |-> TRUE, key_id |-> 0, hd |-> k]
        ELSE [db |-> [db EXCEPT !.keys = @ \cup {nk}], err |-> FALSE, key_id |-> nk.id, hd |-> k]

(***************************************************************************)
(* The open wallet object and its key queries.                             *)
(***************************************************************************)
Self(db, w) ==
    LET r == WalletRow(db, w)
    IN [wallet_id |-> w, purpose |-> r.purpose, scheme |-> r.scheme,
        network |-> r.network_name, main_key_id |-> r.main_key_id,
        default_account_id |-> DefaultAccountId(db, w),
        multisig_n_required |-> r.multisig_n_required, sort_keys |-> r.sort_keys]

\* a filter of HDWallet.keys with every argument at its default
KF == [network |-> "", account_id |-> Nil, change |-> Nil, depth |-> Nil,
       key_id |-> Nil, used |-> "None", is_active |-> TRUE]

WalletKeys(db, self, f) ==
    {r \in db.keys :
        /\ r.wallet_id = self.wallet_id
        /\ (f.network # "" => r.network_name = f.network)
        /\ (f.account_id # Nil =>
                /\ r.account_id = f.account_id
                /\ (self.scheme = "bip44" /\ f.depth = Nil => r.depth >= 3))
        /\ (f.change # Nil =>
                /\ r.change = f.change
                /\ (self.scheme = "bip44" /\ f.depth = Nil => r.depth > 4))
        /\ (f.depth # Nil => r.depth = f.depth)
        /\ (f.key_id # Nil => r.id = f.key_id)
        /\ (f.used # "None" => r.used = (f.used = "True"))
        /\ (f.is_active => (r.balance # 0 \/ r.used = FALSE))}

\* HDWallet.key(term) for a numeric term: the row, when this wallet holds it
WalletKeyById(db, self, id) ==
    {r \in db.keys : r.wallet_id = self.wallet_id /\ r.purpose = self.purpose /\ r.id = id}

\* HDWalletKey.key(): HDKey(import_key=self.wif, network=self.network_name)
KeyOfRow(r) == HDKey(r.wif.root, r.wif.segs, r.wif.priv, r.key_type, r.network_name)
HDWalletKeyOf(r) == [key_id |-> r.id, hd |-> KeyOfRow(r)]

get_account_defaults(db, self, network, account_id) ==
    LET network2 == IF network = "" THEN self.network ELSE network
        account2 == IF network = "" /\ account_id = Nil
                    THEN self.default_account_id ELSE account_id
        qr == {r \in db.keys : /\ r.wallet_id = self.wallet_id
                               /\ r.purpose = self.purpose
                               /\ r.depth = AccountDepth
                               /\ r.network_name = network2
                               /\ (account2 # Nil => r.account_id = account2)}
        account3 == IF account2 \in {Nil, 0} /\ qr # {} THEN First(qr).account_id ELSE account2
    IN [network |-> network2, account_id |-> account3,
        acckey |-> IF qr = {} THEN 0 ELSE First(qr).id]

(***************************************************************************)
(* HDWallet._create_keys_from_path                                         *)
(***************************************************************************)
Failed(db) == [db |-> db, err |-> TRUE, key_id |-> 0, hd |-> HDKey(0, <<>>, FALSE, "", "")]

\* str.replace(old + '/', ''): every occurrence of the levels `old` that a
\* further level follows is dropped
RECURSIVE StripAll(_, _)
StripAll(target, old) ==
    IF target = <<>> THEN <<>>
    ELSE IF Len(target) > Len(old) /\ SubSeq(target, 1, Len(old)) = old
    THEN StripAll(SubSeq(target, Len(old) + 1, Len(target)), old)
    ELSE <<Head(target)>> \o StripAll(Tail(target), old)

Ctx(wallet_id, account_id, network, change, purpose) ==
    [wallet_id |-> wallet_id, account_id |-> account_id, network |-> network,
     change |-> change, purpose |-> purpose]

\* the loop of _create_keys_from_path over path[l..]: derive, store, descend
RECURSIVE CreateLoop(_, _, _, _, _, _, _)
CreateLoopStored(nk, sub, basepath, path, l, ctx) ==
    IF nk.err THEN Failed(nk.db)
    ELSE CreateLoop(nk.db, sub.key, nk.key_id, basepath, path, l + 1, ctx)

CreateLoopDerived(db, sub, parent_id, basepath, path, l, ctx) ==
    IF sub.err THEN Failed(db)
    ELSE CreateLoopStored(from_key(db, ctx.wallet_id, sub.key, ctx.account_id, ctx.network,
                                   ctx.change, ctx.purpose, parent_id,
                                   basepath \o SubSeq(path, 1, l), ""),
                          sub, basepath, path, l, ctx)

CreateLoop(db, ck, parent_id, basepath, path, l, ctx) ==
    IF l > Len(path) THEN [db |-> db, err |-> FALSE, key_id |-> parent_id, hd |-> ck]
    ELSE CreateLoopDerived(db, subkey_for_path(ck, path[l], ctx.network), parent_id,
                           basepath, path, l, ctx)

\* the closest ancestor of `target` the wallet holds: the search by truncation
ClosestAncestor(db, wallet_id, target) ==
    LET lens == {n \in 1..Len(target) :
                    \E r \in db.keys : r.wallet_id = wallet_id /\ r.path = SubSeq(target, 1, n)}
    IN  IF lens = {} THEN {}
        ELSE {First({r \in db.keys : /\ r.wallet_id = wallet_id
                                    /\ r.path = SubSeq(target, 1, Max(lens))})}

\* where the loop starts: at `parent`, or at the ancestor found when that is
\* not the key at basepath
PathStart(db, self, parent, path, basepath, rkeys) ==
    IF rkeys = {} \/ First(rkeys).path = basepath
    THEN [err |-> FALSE, hd |-> parent.hd, key_id |-> parent.key_id,
          basepath |-> basepath, path |-> path]
    ELSE [err |-> WalletKeyById(db, self, First(rkeys).id) = {},
          hd |-> KeyOfRow(First(rkeys)), key_id |-> First(rkeys).id,
          basepath |-> First(rkeys).path,
          path |-> StripAll(basepath \o path, First(rkeys).path)]

CreateFrom(db, st, ctx) ==
    IF st.err THEN Failed(db)
    ELSE CreateLoop(db, st.hd, st.key_id, st.basepath, st.path, 1, ctx)

create_keys_from_path(db, self, parent, path, ctx, basepath) ==
    CreateFrom(db,
               PathStart(db, self, parent, path, basepath,
                         ClosestAncestor(db, ctx.wallet_id, basepath \o path)),
               ctx)

(***************************************************************************)
(* HDWallet.new_account                                                    *)
(***************************************************************************)
Found(db, r) == [db |-> db, err |-> FALSE, key_id |-> r.id, hd |-> KeyOfRow(r)]
AsParent(res) == [key_id |-> res.key_id, hd |-> res.hd]

\* network, account_id and the queries of new_account before it creates keys
NewAccountArgs(db, self, account_id, network) ==
    LET network2 == IF network = "" THEN self.network ELSE network
        ofnet == {r \in db.keys : /\ r.wallet_id = self.wallet_id
                                  /\ r.purpose = self.purpose
                                  /\ r.network_name = network2}
        account2 == IF account_id # Nil THEN account_id
                    ELSE IF ofnet = {} THEN 0
                    ELSE Max({r.account_id : r \in ofnet}) + 1
    IN [network |-> network2, account_id |-> account2,
        exists |-> WalletKeys(db, self, [KF EXCEPT !.account_id = account2,
                                                   !.depth = AccountDepth,
                                                   !.network = network2]) # {},
        res |-> WalletKeys(db, self, [KF EXCEPT !.depth = 2, !.network = network2]),
        d1 |-> WalletKeys(db, self, [KF EXCEPT !.depth = 1]),
        ctx |-> Ctx(self.wallet_id, account2, network2, 0, self.purpose)]

NewAccountChange(acckey, chg) ==
    IF chg.err THEN Failed(chg.db)
    ELSE [db |-> chg.db, err |-> FALSE, key_id |-> acckey.key_id, hd |-> acckey.hd]

NewAccountPayment(self, a, acckey, pay) ==
    IF pay.err THEN Failed(pay.db)
    ELSE NewAccountChange(acckey,
                          create_keys_from_path(pay.db, self, AsParent(acckey), <<LvInt(1)>>,
                                                a.ctx, KeyRow(pay.db, acckey.key_id).path))

NewAccountKey(self, a, acckey) ==
    IF acckey.err THEN Failed(acckey.db)
    ELSE NewAccountPayment(self, a, acckey,
                           create_keys_from_path(acckey.db, self, AsParent(acckey),
                                                 <<LvInt(0)>>, a.ctx,
                                                 KeyRow(acckey.db, acckey.key_id).path))

NewAccountRoot(self, a, accroot) ==
    IF accroot.err THEN Failed(accroot.db)
    ELSE NewAccountKey(self, a,
                       create_keys_from_path(accroot.db, self, AsParent(accroot),
                                             <<LvHard(a.account_id)>>, a.ctx,
                                             KeyRow(accroot.db, accroot.key_id).path))

NewAccountChecked(db, self, a, mk) ==
    IF self.scheme # "bip44" THEN Failed(db)
    ELSE IF mk = {} THEN Failed(db)
    ELSE IF First(mk).depth # 0 \/ ~First(mk).is_private THEN Failed(db)
    ELSE IF a.exists THEN Failed(db)
    ELSE NewAccountRoot(self, a,
            IF a.res # {}
            THEN (IF WalletKeyById(db, self, First(a.res).id) = {} THEN Failed(db)
                  ELSE Found(db, First(a.res)))
            ELSE IF a.d1 = {} \/ WalletKeyById(db, self, First(a.d1).id) = {} THEN Failed(db)
            ELSE create_keys_from_path(db, self, HDWalletKeyOf(First(a.d1)),
                                       <<LvHard(Bip44Cointype(a.network))>>,
                                       a.ctx, First(a.d1).path))

new_account(db, self, account_id, network) ==
    NewAccountChecked(db, self, NewAccountArgs(db, self, account_id, network),
                      MainKeyRows(db, self.wallet_id))

(***************************************************************************)
(* HDWallet.new_key on a single or bip44 wallet                            *)
(***************************************************************************)
\* every new key takes the first address index
FirstAddressIndex(db, self, d, change, max_depth) == 0

\* the address index after the highest one of the account's keys at max_depth
NewAddressIndex(db, self, d, change, max_depth) ==
    LET prevkey == {r \in db.keys : /\ r.wallet_id = self.wallet_id
                                    /\ r.purpose = self.purpose
                                    /\ r.network_name = d.network
                                    /\ r.account_id = d.account_id
                                    /\ r.change = change
                                    /\ r.depth = max_depth}
    IN IF prevkey = {} THEN 0 ELSE Max({r.address_index : r \in prevkey}) + 1

NewKeyOfAccount(self, d, hk, main_acc_key, change, max_depth) ==
    IF main_acc_key = {} THEN Failed(hk.db)
    ELSE create_keys_from_path(hk.db, self, HDWalletKeyOf(First(main_acc_key)),
                               <<LvInt(change),
                                 LvInt(NewAddressIndex(hk.db, self, d, change, max_depth))>>,
                               Ctx(self.wallet_id, d.account_id, d.network, change, self.purpose),
                               First(main_acc_key).path)

NewKeyAccount(self, d, hk, change, max_depth) ==
    IF hk.err THEN Failed(hk.db)
    ELSE NewKeyOfAccount(self, d, hk, WalletKeyById(hk.db, self, hk.key_id), change, max_depth)

NewKeyDefaults(db, self, d, change, max_depth) ==
    NewKeyAccount(self, d,
                  IF d.acckey # 0 THEN [db |-> db, err |-> FALSE, key_id |-> d.acckey]
                  ELSE new_account(db, self, d.account_id, d.network),
                  change, max_depth)

new_key_bip44(db, self, account_id, network, change, max_depth) ==
    NewKeyDefaults(db, self, get_account_defaults(db, self, network, account_id),
                   change, max_depth)

new_key_cosigner(db, self, account_id, network, change, max_depth) ==
    IF self.scheme = "single"
    THEN IF MainKeyRows(db, self.wallet_id) = {} THEN Failed(db)
         ELSE Found(db, First(MainKeyRows(db, self.wallet_id)))
    ELSE IF self.scheme = "bip44"
    THEN new_key_bip44(db, self, account_id, network, change, max_depth)
    ELSE Failed(db)

(***************************************************************************)
(* HDWallet.new_key on a multisig wallet                                   *)
(***************************************************************************)
\* list.sort(key=...): stable, ascending in the rank of the public-key bytes
RECURSIVE InsertByRank(_, _)
InsertByRank(x, sorted) ==
    IF sorted = <<>> THEN <<x>>
    ELSE IF PubRank(x.public_key) < PubRank(Head(sorted).public_key)
    THEN <<x>> \o sorted
    ELSE <<Head(sorted)>> \o InsertByRank(x, Tail(sorted))

\* the key list left in the order it was given
SortKeepOrder(seq) == seq

\* sorted(key_list, key=lambda x: x.public_hex)
RECURSIVE SortByPublicKey(_)
SortByPublicKey(seq) ==
    IF seq = <<>> THEN <<>>
    ELSE InsertByRank(seq[Len(seq)], SortByPublicKey(SubSeq(seq, 1, Len(seq) - 1)))

\* a wallet name "<base>" has co = Nil, a name "<base>-cosigner-<co>" has co >= 0
WalletName(base, co) == [base |-> base, co |-> co]
NameBefore(a, b) == a.base = b.base /\ a.co < b.co

\* order_by(DbWallet.name) over the wallets with parent_id = wallet_id
RECURSIVE OrderByName(_)
OrderByName(rows) ==
    IF rows = {} THEN <<>>
    ELSE LET r == CHOOSE x \in rows : \A y \in rows \ {x} :
                      NameBefore(x.name, y.name) \/ (~NameBefore(y.name, x.name) /\ x.id < y.id)
         IN <<r.id>> \o OrderByName(rows \ {r})

CosignerWallets(db, wallet_id) == OrderByName({r \in db.wallets : r.parent_id = wallet_id})

\* the loop of new_key over co_sign_wallets: one new key of each cosigner wallet
RECURSIVE CosignerKeys(_, _, _, _, _, _, _)
CosignerKey(wk, ws, i, network, change, max_depth, acc) ==
    IF wk.err THEN [db |-> wk.db, err |-> TRUE, public_keys |-> acc]
    ELSE CosignerKeys(wk.db, ws, i + 1, network, change, max_depth,
                      Append(acc, [key_id |-> wk.key_id, public_key |-> PublicHex(wk.hd)]))

CosignerKeys(db, ws, i, network, change, max_depth, acc) ==
    IF i > Len(ws) THEN [db |-> db, err |-> FALSE, public_keys |-> acc]
    ELSE CosignerKey(new_key_cosigner(db, Self(db, ws[i]), Nil, network, change, max_depth),
                     ws, i, network, change, max_depth, acc)

serialize_multisig_redeemscript(public_key_list, n_required) ==
    [t |-> "script", n |-> n_required, keys |-> public_key_list]
P2shAddress(script) == [t |-> "p2sh", of |-> script]

RECURSIVE JoinIds(_)
JoinIds(ids) ==
    IF ids = <<>> THEN <<>> ELSE <<LvInt(Head(ids))>> \o JoinIds(Tail(ids))

\* "multisig-%d-of-" % n + '/'.join(public_key_ids)
MultisigPath(n, ids) ==
    IF ids = <<>> THEN <<Lv("multisig-" \o ToString(n) \o "-of-", "")>>
    ELSE <<Lv("multisig-" \o ToString(n) \o "-of-" \o ToString(Head(ids)), "")>>
         \o JoinIds(Tail(ids))

\* positions counted from one
IndexFromOne(seq, x) == Min({i \in 1..Len(seq) : seq[i] = x})

\* public_key_ids.index(child_id)
IndexOf(seq, x) == Min({i \in 1..Len(seq) : seq[i] = x}) - 1

MultisigKeyOrder(public_keys, sort_keys) ==
    IF sort_keys THEN SortByPublicKey(public_keys) ELSE public_keys

\* the multisig key row and its child links, from the cosigner keys in script order
MultisigKeyRow(db, self, d, change, public_keys) ==
    LET public_key_list == [i \in 1..Len(public_keys) |-> public_keys[i].public_key]
        public_key_ids == [i \in 1..Len(public_keys) |-> public_keys[i].key_id]
        redeemscript == serialize_multisig_redeemscript(public_key_list,
                                                        self.multisig_n_required)
        address == P2shAddress(redeemscript)
    IN  [id |-> NextId(db.keys), wallet_id |-> self.wallet_id,
         path |-> MultisigPath(self.multisig_n_required, public_key_ids),
         depth |-> 0, purpose |-> self.purpose, account_id |-> d.account_id,
         change |-> change, address_index |-> 0, network_name |-> d.network,
         parent_id |-> 0, key_type |-> "multisig", is_private |-> FALSE,
         public |-> redeemscript, wif |-> [t |-> "multisig", of |-> address],
         address |-> address, used |-> FALSE, balance |-> 0]

MultisigChildren(parent_id, public_keys) ==
    LET public_key_ids == [i \in 1..Len(public_keys) |-> public_keys[i].key_id]
    IN {[parent_id |-> parent_id, child_id |-> public_key_ids[i],
         key_order |-> IndexOf(public_key_ids, public_key_ids[i])] :
        i \in 1..Len(public_key_ids)}

MultisigInsert(db, d, multisig_key, public_keys) ==
    IF ~KeyAccepted(db, multisig_key) THEN Failed(db)
    ELSE [db |-> [db EXCEPT !.keys = @ \cup {multisig_key},
                            !.links = @ \cup MultisigChildren(multisig_key.id, public_keys)],
          err |-> FALSE, key_id |-> multisig_key.id,
          hd |-> HDKey(0, <<>>, FALSE, "multisig", d.network)]

MultisigOrdered(db, self, d, change, public_keys) ==
    MultisigInsert(db, d, MultisigKeyRow(db, self, d, change, public_keys), public_keys)

MultisigCosigned(self, d, change, co) ==
    IF co.err THEN Failed(co.db)
    ELSE MultisigOrdered(co.db, self, d, change,
                         MultisigKeyOrder(co.public_keys, self.sort_keys))

NewKeyMultisigDefaults(db, self, d, change, max_depth) ==
    IF self.network # d.network THEN Failed(db)
    ELSE IF self.multisig_n_required = 0 THEN Failed(db)
    ELSE MultisigCosigned(self, d, change,
                          CosignerKeys(db, CosignerWallets(db, self.wallet_id), 1,
                                       d.network, change, max_depth, <<>>))

new_key_multisig(db, self, account_id, network, change, max_depth) ==
    NewKeyMultisigDefaults(db, self, get_account_defaults(db, self, network, account_id),
                           change, max_depth)

new_key(db, self, account_id, network, change, max_depth) ==
    IF self.scheme = "multisig"
    THEN new_key_multisig(db, self, account_id, network, change, max_depth)
    ELSE new_key_cosigner(db, self, account_id, network, change, max_depth)

(***************************************************************************)
(* HDWallet.get_key                                                        *)
(***************************************************************************)
\* the loop of get_key: pop the last unused key, or make a new one
RECURSIVE GetKeyLoop(_, _, _, _, _, _, _)
GetKeyPopped(db, self, d, n, change, depth_of_keys, st, dk) ==
    GetKeyLoop(db, self, d, n - 1, change, depth_of_keys,
               [dbkey |-> st.dbkey \ {dk}, key_list |-> Append(st.key_list, dk)])

GetKeyCreated(self, d, n, change, depth_of_keys, st, nk) ==
    IF nk.err THEN [db |-> nk.db, err |-> TRUE, key_list |-> st.key_list]
    ELSE GetKeyLoop(nk.db, self, d, n - 1, change, depth_of_keys,
                    [dbkey |-> {}, key_list |-> Append(st.key_list, nk.key_id)])

GetKeyLoop(db, self, d, n, change, depth_of_keys, st) ==
    IF n = 0 THEN [db |-> db, err |-> FALSE, key_list |-> st.key_list]
    ELSE IF st.dbkey # {}
    THEN GetKeyPopped(db, self, d, n, change, depth_of_keys, st, Max(st.dbkey))
    ELSE GetKeyCreated(self, d, n, change, depth_of_keys, st,
                       new_key(db, self, d.account_id, d.network, change, depth_of_keys))

\* every unused key of the scope, also one before the last used key
UnusedKeysAll(db, self, d, change, keys_depth) ==
    {r.id : r \in {x \in db.keys : /\ x.wallet_id = self.wallet_id
                                   /\ x.account_id = d.account_id
                                   /\ x.network_name = d.network
                                   /\ x.change = change
                                   /\ x.depth = keys_depth
                                   /\ ~x.used}}

\* the unused keys after the last used one, as get_key queries them
UnusedKeys(db, self, d, change, keys_depth) ==
    LET scope == {r \in db.keys : /\ r.wallet_id = self.wallet_id
                                  /\ r.account_id = d.account_id
                                  /\ r.network_name = d.network
                                  /\ r.change = change
                                  /\ r.depth = keys_depth}
        used == {r.id : r \in {x \in scope : x.used}}
        last_used_key_id == IF used = {} THEN 0 ELSE Max(used)
    IN {r.id : r \in {x \in scope : ~x.used /\ x.id > last_used_key_id}}

GetKeyDefaults(db, self, d, number_of_keys, change, depth_of_keys) ==
    GetKeyLoop(db, self, d, number_of_keys, change, depth_of_keys,
               [dbkey |-> UnusedKeys(db, self, d, change,
                                     IF self.scheme = "multisig" THEN 0 ELSE depth_of_keys),
                key_list |-> <<>>])

get_key(db, self, account_id, network, number_of_keys, change, depth_of_keys) ==
    GetKeyDefaults(db, self, get_account_defaults(db, self, network, account_id),
                   number_of_keys, change, depth_of_keys)

(***************************************************************************)
(* HDWallet.create and HDWallet.create_multisig                            *)
(***************************************************************************)
WalletFailed(db) == [db |-> db, err |-> TRUE, wallet_id |-> 0]

Created(db, wallet_id) == [db |-> db, err |-> FALSE, wallet_id |-> wallet_id]

NewWalletRow(db, name, network, purpose, scheme, parent_id, sort_keys) ==
    [id |-> NextId(db.wallets), name |-> name, scheme |-> scheme,
     network_name |-> network, purpose |-> purpose, main_key_id |-> 0,
     sort_keys |-> sort_keys, multisig_n_required |-> 0, parent_id |-> parent_id]

SetMainKey(db, wallet_id, key_id) ==
    [db EXCEPT !.wallets = {IF r.id = wallet_id THEN [r EXCEPT !.main_key_id = key_id] ELSE r :
                            r \in db.wallets}]

CreateAccount(w, acc) == IF acc.err THEN WalletFailed(acc.db) ELSE Created(acc.db, w.wallet_id)

CreateRoot(w, account_id, root) ==
    IF root.err THEN WalletFailed(root.db)
    ELSE CreateAccount(w, new_account(root.db, w, account_id, ""))

\* the wallet is stored with its main key: a bip44 wallet on a master key gets
\* its purpose and cointype keys and its first account
CreateMainKey(db2, w, mk, account_id) ==
    IF w.scheme = "single" THEN Created(db2, w.wallet_id)
    ELSE IF KeyRow(db2, mk.key_id).depth > 4 THEN WalletFailed(db2)
    ELSE IF KeyRow(db2, mk.key_id).depth # 0 THEN Created(db2, w.wallet_id)
    ELSE CreateRoot(w, account_id,
                    create_keys_from_path(db2, w, AsParent(mk),
                                          <<LvHard(w.purpose),
                                            LvHard(Bip44Cointype(w.network))>>,
                                          Ctx(w.wallet_id, account_id, w.network, 0, w.purpose),
                                          <<LvM>>))

CreateLinked(db2, wallet_id, mk, account_id) ==
    CreateMainKey(db2, Self(db2, wallet_id), mk, account_id)

CreateKeyed(new_wallet, mk, account_id) ==
    IF mk.err THEN WalletFailed(mk.db)
    ELSE CreateLinked(SetMainKey(mk.db, new_wallet.id, mk.key_id), new_wallet.id, mk,
                      account_id)

CreateStored(db, db1, new_wallet, key, account_id) ==
    IF \E r \in db.wallets : r.name = new_wallet.name THEN WalletFailed(db)
    ELSE IF new_wallet.scheme = "multisig" THEN Created(db1, new_wallet.id)
    ELSE IF new_wallet.scheme \in {"bip44", "single"}
    THEN CreateKeyed(new_wallet,
                     from_key(db1, new_wallet.id, key, account_id, new_wallet.network_name, 0,
                              new_wallet.purpose, 0, <<LvM>>,
                              IF new_wallet.scheme = "single" THEN "single" ELSE "bip32"),
                     account_id)
    ELSE WalletFailed(db1)

CreateRow(db, new_wallet, key, account_id) ==
    CreateStored(db, [db EXCEPT !.wallets = @ \cup {new_wallet}], new_wallet, key, account_id)

\* `key` is the HDKey the wallet is created with (the generated one when the
\* caller gives none); a multisig wallet takes no key, only `network`
create(db, name, key, network, account_id, purpose, scheme, parent_id, sort_keys) ==
    CreateRow(db,
              NewWalletRow(db, name,
                           IF scheme = "multisig"
                           THEN (IF network = "" THEN DEFAULT_NETWORK ELSE network)
                           ELSE key.net,
                           purpose, scheme, parent_id, sort_keys),
              key, account_id)

\* hdkey_list.sort(key=lambda x: x.public_byte)
CosignerOrder(key_list, sort_keys) ==
    IF ~sort_keys THEN key_list
    ELSE LET tagged == [i \in 1..Len(key_list) |->
                            [key |-> key_list[i], public_key |-> PublicHex(key_list[i])]]
             sorted == SortByPublicKey(tagged)
         IN [i \in 1..Len(sorted) |-> sorted[i].key]

\* the loop of create_multisig over hdkey_list: one cosigner wallet per key
RECURSIVE CreateCosigners(_, _, _, _, _, _, _, _)
CreateCosigner(w, hdpm, hdkey_list, co_id, name, network, account_id, purpose) ==
    IF w.err THEN WalletFailed(w.db)
    ELSE CreateCosigners(w.db, hdpm, hdkey_list, co_id + 1, name, network, account_id, purpose)

CreateCosignerOf(db, cokey, hdpm, hdkey_list, co_id, name, network, account_id, purpose) ==
    IF WalletRow(db, hdpm).network_name # cokey.net THEN WalletFailed(db)
    ELSE CreateCosigner(create(db, WalletName(name.base, co_id), cokey, network, account_id,
                               purpose, IF cokey.kt = "single" THEN "single" ELSE "bip44",
                               hdpm, FALSE),
                        hdpm, hdkey_list, co_id, name, network, account_id, purpose)

CreateCosigners(db, hdpm, hdkey_list, co_id, name, network, account_id, purpose) ==
    IF co_id >= Len(hdkey_list) THEN [db |-> db, err |-> FALSE, wallet_id |-> hdpm]
    ELSE CreateCosignerOf(db, hdkey_list[co_id + 1], hdpm, hdkey_list, co_id, name, network,
                          account_id, purpose)

SetSigsRequired(db, wallet_id, sigs) ==
    [db EXCEPT !.wallets = {IF r.id = wallet_id THEN [r EXCEPT !.multisig_n_required = sigs]
                            ELSE r : r \in db.wallets}]

CreateMultisigCosigned(co, sigs) ==
    IF co.err THEN WalletFailed(co.db)
    ELSE Created(SetSigsRequired(co.db, co.wallet_id, sigs), co.wallet_id)

CreateMultisigParent(hdpm, hdkey_list, sigs, name, network, account_id, purpose) ==
    IF hdpm.err THEN WalletFailed(hdpm.db)
    ELSE CreateMultisigCosigned(CreateCosigners(hdpm.db, hdpm.wallet_id, hdkey_list, 0,
                                                name, network, account_id, purpose),
                                sigs)

CreateMultisigChecked(db, name, key_list, sigs, network, account_id, purpose, sort_keys) ==
    IF \E r \in db.wallets : r.name = name THEN WalletFailed(db)
    ELSE IF Len(key_list) < 2 THEN WalletFailed(db)
    ELSE IF sigs > Len(key_list) THEN WalletFailed(db)
    ELSE CreateMultisigParent(create(db, name, HDKey(0, <<>>, FALSE, "", ""), network,
                                     account_id, purpose, "multisig", 0, sort_keys),
                              CosignerOrder(key_list, sort_keys), sigs, name, network,
                              account_id, purpose)

\* sigs_required = Nil stands for the default None
create_multisig(db, name, key_list, sigs_required, network, account_id, purpose, sort_keys) ==
    CreateMultisigChecked(db, name, key_list,
                          IF sigs_required = Nil THEN Len(key_list) ELSE sigs_required,
                          network, account_id, purpose, sort_keys)

(***************************************************************************)
(* HDWallet.key_add_private                                                *)
(***************************************************************************)
KeyUpgraded(db, row, private_key) ==
    IF ~KeyAccepted([db EXCEPT !.keys = @ \ {row}],
                    [row EXCEPT !.is_private = TRUE, !.wif = WifOf(private_key)])
    THEN [db |-> db, err |-> TRUE, key_id |-> 0, hd |-> private_key]
    ELSE [db |-> [db EXCEPT !.keys = (@ \ {row})
                                     \cup {[row EXCEPT !.is_private = TRUE,
                                                       !.wif = WifOf(private_key)]}],
          err |-> FALSE, key_id |-> row.id, hd |-> private_key]

\* wallet_key is the id of the row of an HDWalletKey
key_add_private(db, self, wallet_key, private_key) ==
    IF ~HasKey(db, wallet_key) THEN [db |-> db, err |-> TRUE, key_id |-> 0, hd |-> private_key]
    ELSE KeyUpgraded(db, KeyRow(db, wallet_key), private_key)

(***************************************************************************)
(* wallet_exists, wallet_create_or_open and the name setter                *)
(***************************************************************************)
\* a wallet is looked up by id only
WalletExistsById(db, wallet) == FALSE

\* `wallet` is a name; the store of the default database file is the store
wallet_exists(db, wallet) == \E r \in db.wallets : r.name = wallet

WalletOfName(db, name) == (CHOOSE r \in db.wallets : r.name = name).id

wallet_create_or_open(db, name, key, network, account_id, purpose, scheme, parent_id, sort_keys) ==
    IF wallet_exists(db, name) THEN Created(db, WalletOfName(db, name))
    ELSE create(db, name, key, network, account_id, purpose, scheme, parent_id, sort_keys)

\* HDWallet.name = value
name_setter(db, self, value) ==
    IF wallet_exists(db, value) THEN WalletFailed(db)
    ELSE Created([db EXCEPT !.wallets = {IF r.id = self.wallet_id THEN [r EXCEPT !.name = value]
                                         ELSE r : r \in db.wallets}],
                 self.wallet_id)

(***************************************************************************)
(* HDWallet.import_master_key and HDWallet.import_key                      *)
(***************************************************************************)
ZFill5(n) ==
    IF n < 10 THEN "0000" \o ToString(n)
    ELSE IF n < 100 THEN "000" \o ToString(n)
    ELSE "00" \o ToString(n)
ImportPath(n) == <<Lv("import_key_" \o ZFill5(n), "")>>
ImportNumbers(db) == {n \in 1..(Cardinality(db.keys) + 1) : \E r \in db.keys : r.path = ImportPath(n)}

\* HDKey.account_key().wif_public() with the defaults of KeyLib
AccountKeyWifPublic(k) ==
    WifOf(HDKey(k.root,
                <<[i |-> DefaultPurpose, h |-> TRUE], [i |-> Bip44Cointype(k.net), h |-> TRUE],
                  [i |-> 0, h |-> TRUE]>>,
                FALSE, k.kt, k.net))

ImportMasterRoot(self, mk, root) ==
    IF root.err THEN Failed(root.db)
    ELSE [db |-> SetMainKey(root.db, self.wallet_id, mk.key_id),
          err |-> FALSE, key_id |-> mk.key_id, hd |-> mk.hd]

ImportMasterStored(self, d, mk) ==
    IF mk.err THEN Failed(mk.db)
    ELSE ImportMasterRoot(self, mk,
                          create_keys_from_path(mk.db, self, AsParent(mk),
                                                <<LvHard(self.purpose),
                                                  LvHard(Bip44Cointype(self.network))>>,
                                                Ctx(self.wallet_id, d.account_id, d.network, 0,
                                                    self.purpose),
                                                <<LvM>>))

ImportMasterChecked(db, self, hdkey, d, mks) ==
    IF mks = {} THEN Failed(db)
    ELSE IF ~hdkey.priv \/ Depth(hdkey) # 0 THEN Failed(db)
    ELSE IF First(mks).depth # AccountDepth \/ First(mks).is_private
            \/ First(mks).key_type # "bip32" THEN Failed(db)
    ELSE IF First(mks).wif # AccountKeyWifPublic(hdkey) THEN Failed(db)
    ELSE IF ~(self.network = First(mks).network_name /\ self.network = hdkey.net)
    THEN Failed(db)
    ELSE ImportMasterStored(self, d,
                            from_key(db, self.wallet_id, hdkey, d.account_id, d.network, 0,
                                     self.purpose, 0, <<LvM>>, "bip32"))

import_master_key(db, self, hdkey) ==
    ImportMasterChecked(db, self, hdkey, get_account_defaults(db, self, "", Nil),
                        MainKeyRows(db, self.wallet_id))

\* the path of an imported key: 'm', or the next free "import_key_NNNNN"
ImportKeyPath(db, key_type) ==
    IF key_type # "single" THEN <<LvM>>
    ELSE IF ImportNumbers(db) = {} THEN ImportPath(1)
    ELSE ImportPath(Max(ImportNumbers(db)) + 1)

ImportKeyChecked(db, self, hdkey, account_id, purpose, key_type, mks) ==
    IF /\ mks # {} /\ First(mks).depth = AccountDepth
       /\ hdkey.priv /\ Depth(hdkey) = 0 /\ self.scheme = "bip44"
    THEN import_master_key(db, self, [hdkey EXCEPT !.kt = "bip32"])
    ELSE from_key(db, self.wallet_id,
                  IF key_type = "" THEN [hdkey EXCEPT !.kt = "single"] ELSE hdkey,
                  account_id, hdkey.net, 0, purpose, 0,
                  ImportKeyPath(db, IF key_type = "" THEN "single" ELSE key_type),
                  IF key_type = "" THEN "single" ELSE key_type)

\* key_type = "" stands for the default None
import_key(db, self, hdkey, account_id, purpose, key_type) ==
    ImportKeyChecked(db, self, hdkey, account_id, purpose, key_type,
                     MainKeyRows(db, self.wallet_id))

(***************************************************************************)
(* HDWallet.key_for_path                                                   *)
(***************************************************************************)
\* HDWallet.network_list
network_list(db, self) ==
    IF self.scheme # "bip44" THEN {self.network}
    ELSE LET d2 == WalletKeys(db, self, [KF EXCEPT !.depth = 2])
             d3 == WalletKeys(db, self, [KF EXCEPT !.depth = AccountDepth])
         IN {r.network_name : r \in (IF d2 # {} THEN d2 ELSE d3)}

\* the checks of key_for_path on parse_bip44_path(path): TRUE when one raises
PathCheckFails(db, self, path) ==
    LET n == normalize_path(path)
        pathl == n.path
    IN  \/ n.err
        \/ Len(pathl) > 6
        \/ Len(pathl) < 4
        \/ ~IsInt(pathl[2].t) \/ IntOf(pathl[2].t) # self.purpose
        \/ ~IsInt(pathl[3].t)
        \/ IntOf(pathl[3].t) \notin {Bip44Cointype(nw) : nw \in network_list(db, self)}
        \/ pathl[2].q # "'" \/ pathl[3].q # "'" \/ pathl[4].q # "'"

\* key_for_path after the checks; rkeys is the closest ancestor of the normalized path
KeyForPathAncestor(db, self, path, npath, account_id, change, rkeys, mks) ==
    IF rkeys # {} /\ First(rkeys).path = path
    THEN (IF WalletKeyById(db, self, First(rkeys).id) = {} THEN Failed(db)
          ELSE Found(db, First(rkeys)))
    ELSE IF mks = {} THEN Failed(db)
    ELSE IF rkeys # {} /\ First(mks).wif # First(rkeys).wif
            /\ WalletKeyById(db, self, First(rkeys).id) = {}
    THEN Failed(db)
    ELSE create_keys_from_path(db, self,
                               IF rkeys # {} /\ First(mks).wif # First(rkeys).wif
                               THEN HDWalletKeyOf(First(rkeys))
                               ELSE HDWalletKeyOf(First(mks)),
                               IF rkeys = {} THEN path ELSE StripAll(npath, First(rkeys).path),
                               Ctx(self.wallet_id, account_id, self.network, change,
                                   self.purpose),
                               IF rkeys = {} THEN <<>> ELSE First(rkeys).path)

KeyForPathNormalized(db, self, path, n, account_id, change) ==
    IF n.err THEN Failed(db)
    ELSE KeyForPathAncestor(db, self, path, n.path, account_id, change,
                            ClosestAncestor(db, self.wallet_id, n.path),
                            MainKeyRows(db, self.wallet_id))

key_for_path(db, self, path, account_id, change, enable_checks) ==
    IF path \notin {<<Lv("m", "")>>, <<Lv("M", "")>>} /\ enable_checks
       /\ PathCheckFails(db, self, path)
    THEN Failed(db)
    ELSE KeyForPathNormalized(db, self, path, normalize_path(path), account_id, change)

(***************************************************************************)
(* The ledger: HDWallet.utxos, utxos_update and balance_update             *)
(***************************************************************************)
\* _balance and _balances of an open HDWallet object, as __init__ leaves them
NoBalances == [balance |-> Nil, balances |-> <<>>]

\* None and 0 are both false in a condition
Falsy(x) == x \in {Nil, 0}

TxOf(db, o) == CHOOSE t \in db.txs : t.id = o.transaction_id
Last(rows) == CHOOSE r \in rows : \A s \in rows : s.id <= r.id

RECURSIVE SortedIds(_)
SortedIds(S) == IF S = {} THEN <<>> ELSE <<Min(S)>> \o SortedIds(S \ {Min(S)})

\* outputs joined to their transaction and their key: spent IS False,
\* transaction of this wallet, confirmations >= min_confirms
UnspentOf(db, wallet_id, min_confirms) ==
    {o \in db.outs :
        /\ o.spent = "false"
        /\ HasKey(db, o.key_id)
        /\ \E t \in db.txs : /\ t.id = o.transaction_id
                             /\ t.wallet_id = wallet_id
                             /\ t.confirmations >= min_confirms}

\* the query of balance_update with its optional filters
BalanceRows(db, self, account_id, network, key_id, min_confirms) ==
    {o \in UnspentOf(db, self.wallet_id, min_confirms) :
        /\ (account_id # Nil => KeyRow(db, o.key_id).account_id = account_id)
        /\ (network # "" => KeyRow(db, o.key_id).network_name = network)
        /\ (key_id # Nil => o.key_id = key_id)}

\* the output row a group shows: the query names the row without an aggregate,
\* so any row of the group can stand for it
GroupRow(grp, pick) == IF pick = "first" THEN First(grp) ELSE Last(grp)

\* the loop over the groups (one per key_id, in key_id order): network_values
RECURSIVE NetworkValues(_, _, _, _, _)
NetworkValues(db, rows, groups, pick, nv) ==
    IF groups = <<>> THEN nv
    ELSE LET grp == {o \in rows : o.key_id = Head(groups)}
             net == KeyRow(db, Head(groups)).network_name
             new_value == IF net \in DOMAIN nv
                          THEN nv[net] + GroupRow(grp, pick).value
                          ELSE SumValue(grp)
         IN NetworkValues(db, rows, Tail(groups), pick, (net :> new_value) @@ nv)

\* the loop assigns its variable network, which the key filter below reads
NetworkAfter(db, groups, network) ==
    IF groups = <<>> THEN network ELSE KeyRow(db, groups[Len(groups)]).network_name

\* bulk_update_mappings: the sum of each group, and 0 for the keys in zero
KeyBalances(db, rows, zero) ==
    {IF r.id \in {o.key_id : o \in rows}
     THEN [r EXCEPT !.balance = SumValue({o \in rows : o.key_id = r.id})]
     ELSE IF r \in zero THEN [r EXCEPT !.balance = 0] ELSE r : r \in db.keys}

CacheBalances(obj, self, account_id, key_id, nv) ==
    IF ~(Falsy(key_id) /\ Falsy(account_id)) THEN obj
    ELSE [balances |-> nv @@ obj.balances,
          balance |-> IF self.network \in DOMAIN nv THEN nv[self.network] ELSE obj.balance]

BalanceCached(db, obj) == [db |-> db, err |-> FALSE, obj |-> obj, ret |-> obj.balance]

BalanceUpdated(db, obj, self, account_id, network, key_id, rows, groups, pick) ==
    BalanceCached(
        [db EXCEPT !.keys =
            KeyBalances(db, rows,
                        WalletKeys(db, self,
                                   [KF EXCEPT !.account_id = account_id,
                                              !.network = NetworkAfter(db, groups, network),
                                              !.key_id = key_id]))],
        CacheBalances(obj, self, account_id, key_id,
                      NetworkValues(db, rows, groups, pick, <<>>)))

BalanceGrouped(db, obj, self, account_id, network, key_id, rows, pick) ==
    BalanceUpdated(db, obj, self, account_id, network, key_id, rows,
                   SortedIds({o.key_id : o \in rows}), pick)

balance_update(db, obj, self, account_id, network, key_id, min_confirms, pick) ==
    BalanceGrouped(db, obj, self, account_id, network, key_id,
                   BalanceRows(db, self, account_id, network, key_id, min_confirms), pick)

\* HDWallet.utxos, with the defaults d of _get_account_defaults
utxos(db, self, d, min_confirms, key_id) ==
    {o \in UnspentOf(db, self.wallet_id, min_confirms) :
        /\ KeyRow(db, o.key_id).account_id = d.account_id
        /\ KeyRow(db, o.key_id).network_name = d.network
        /\ (key_id # Nil => o.key_id = key_id)}

\* the depth of the keys that hold the addresses of a scheme
SchemeDepth(self) == IF self.scheme = "bip44" THEN AddressDepth ELSE 0

addresslist(db, self, d, key_id, depth) ==
    {r.address : r \in WalletKeys(db, self, [KF EXCEPT !.account_id = d.account_id,
                                                       !.network = d.network,
                                                       !.key_id = key_id,
                                                       !.depth = depth,
                                                       !.is_active = FALSE])}

Listed(us) == {<<us[i].tx_hash, us[i].output_n>> : i \in DOMAIN us}

\* no stored output becomes spent
MarkNothing(db, current, us) == db

\* the stored unspent outputs the provider no longer lists become spent
MarkSpent(db, current, us) ==
    [db EXCEPT !.outs =
        {IF \E c \in current : /\ <<TxOf(db, c).hash, c.output_n>> \notin Listed(us)
                               /\ TxOf(db, c).hash = TxOf(db, o).hash
                               /\ c.output_n = o.output_n
         THEN [o EXCEPT !.spent = "true"] ELSE o : o \in db.outs}]

\* every listed output is added as a new row, also when it is stored already
IngestAsNew(db, self, utxo) ==
    LET ks == {k \in db.keys : k.wallet_id = self.wallet_id /\ k.address = utxo.address}
        ts == {t \in db.txs : t.wallet_id = self.wallet_id /\ t.hash = utxo.tx_hash}
    IN  IF ks = {} THEN [db |-> db, err |-> TRUE, added |-> 0]
        ELSE [db |-> [db EXCEPT
                        !.keys = {IF k \in ks THEN [k EXCEPT !.used = TRUE] ELSE k : k \in @},
                        !.txs = IF ts = {}
                                THEN @ \cup {[id |-> NextId(db.txs),
                                              wallet_id |-> self.wallet_id,
                                              hash |-> utxo.tx_hash,
                                              confirmations |-> utxo.confirmations]}
                                ELSE @,
                        !.outs = @ \cup {[id |-> NextId(db.outs),
                                          transaction_id |-> IF ts = {} THEN NextId(db.txs)
                                                             ELSE First(ts).id,
                                          output_n |-> utxo.output_n, value |-> utxo.value,
                                          key_id |-> First(ks).id, spent |-> "false"]}],
              err |-> FALSE, added |-> 1]

\* one round of the loop over the listed outputs
IngestUtxo(db, self, utxo) ==
    LET ks == {k \in db.keys : k.wallet_id = self.wallet_id /\ k.address = utxo.address}
        ts == {t \in db.txs : t.wallet_id = self.wallet_id /\ t.hash = utxo.tx_hash}
        os == {o \in db.outs : o.output_n = utxo.output_n
                               /\ \E t \in ts : t.id = o.transaction_id}
        used == {IF k \in ks THEN [k EXCEPT !.used = TRUE] ELSE k : k \in db.keys}
        new_tx == [id |-> NextId(db.txs), wallet_id |-> self.wallet_id,
                   hash |-> utxo.tx_hash, confirmations |-> utxo.confirmations]
        tid == IF ts = {} THEN new_tx.id ELSE First(ts).id
    IN  IF Cardinality(ks) > 1 \/ Cardinality(os) > 1 \/ Cardinality(ts) > 1
        THEN [db |-> db, err |-> TRUE, added |-> 0]
        ELSE IF ks = {}
        THEN [db |-> IF os = {} /\ ts = {} THEN [db EXCEPT !.txs = @ \cup {new_tx}] ELSE db,
              err |-> TRUE, added |-> 0]
        ELSE IF os # {}
        THEN [db |-> [db EXCEPT
                        !.keys = used,
                        !.outs = (@ \ os) \cup {[First(os) EXCEPT !.key_id = First(ks).id,
                                                                  !.spent = "false"]},
                        !.txs = (@ \ ts) \cup
                                {[First(ts) EXCEPT !.confirmations = utxo.confirmations]}],
              err |-> FALSE, added |-> IF Falsy(First(os).key_id) THEN 1 ELSE 0]
        ELSE [db |-> [db EXCEPT
                        !.keys = used,
                        !.txs = IF ts = {} THEN @ \cup {new_tx} ELSE @,
                        !.outs = @ \cup {[id |-> NextId(db.outs), transaction_id |-> tid,
                                          output_n |-> utxo.output_n, value |-> utxo.value,
                                          key_id |-> First(ks).id, spent |-> "false"]}],
              err |-> FALSE, added |-> 1]

RECURSIVE IngestLoop(_, _, _, _, _)
IngestNext(r, self, us, i, count) ==
    IF r.err THEN [db |-> r.db, err |-> TRUE, count |-> count]
    ELSE IngestLoop(r.db, self, us, i + 1, count + r.added)

IngestLoop(db, self, us, i, count) ==
    IF i > Len(us) THEN [db |-> db, err |-> FALSE, count |-> count]
    ELSE IngestNext(IngestUtxo(db, self, us[i]), self, us, i, count)

UtxosCounted(bal, count) == [bal EXCEPT !.ret = count]

UtxosIngested(ing, obj, self, d, key_id, pick) ==
    IF ing.err THEN [db |-> ing.db, err |-> TRUE, obj |-> obj, ret |-> 0]
    ELSE UtxosCounted(balance_update(ing.db, obj, self, d.account_id, d.network, key_id, 0, pick),
                      ing.count)

UtxosUpdateDefaults(db, obj, self, d, key_id, us, pick) ==
    UtxosIngested(IngestLoop(MarkSpent(db, utxos(db, self, d, 0, key_id), us), self, us, 1, 0),
                  obj, self, d, key_id, pick)

\* res is what Service.getutxos answers: a list, or False from every provider
utxos_update(db, obj, self, account_id, network, key_id, res, pick) ==
    IF ~res.ok THEN [db |-> db, err |-> TRUE, obj |-> obj, ret |-> 0]
    ELSE UtxosUpdateDefaults(db, obj, self, get_account_defaults(db, self, network, account_id),
                             key_id, res.list, pick)

(***************************************************************************)
(* HDWallet.transactions_update                                            *)
(***************************************************************************)
\* outputs of the given keys that a stored input refers to become spent
utxos_update_from_transactions(db, key_ids) ==
    LET mine == {o \in db.outs : o.key_id \in key_ids}
        refs(o) == {i \in db.ins : i.prev_hash = TxOf(db, o).hash /\ i.input_n = o.output_n}
    IN  IF \E o \in mine : Cardinality(refs(o)) > 1 THEN [db |-> db, err |-> TRUE]
        ELSE [db |-> [db EXCEPT !.outs = {IF o \in mine /\ refs(o) # {}
                                          THEN [o EXCEPT !.spent = "true"] ELSE o :
                                          o \in db.outs}],
              err |-> FALSE]

KeysAt(db, self, address) ==
    {k \in db.keys : k.wallet_id = self.wallet_id /\ k.address = address}
KeyIdAt(ks) == IF ks = {} THEN Nil ELSE First(ks).id
MarkUsed(rows, ks) == {IF k \in ks THEN [k EXCEPT !.used = TRUE] ELSE k : k \in rows}

\* one input of a listed transaction
StepInput(st, self, tx_id, ti) ==
    LET ks == KeysAt(st.db, self, ti.address)
        item == {i \in st.db.ins : i.transaction_id = tx_id /\ i.input_n = ti.input_n}
        new_tx_item == [id |-> NextId(st.db.ins), transaction_id |-> tx_id,
                        input_n |-> ti.input_n, key_id |-> KeyIdAt(ks),
                        value |-> ti.value, prev_hash |-> ti.prev_hash]
    IN  IF st.err \/ Cardinality(ks) > 1 \/ Cardinality(item) > 1
        THEN [st EXCEPT !.err = TRUE]
        ELSE [st EXCEPT !.db = [@ EXCEPT !.keys = MarkUsed(@, ks),
                                         !.ins = IF item = {} THEN @ \cup {new_tx_item} ELSE @],
                        !.key_ids = @ \cup {k.id : k \in ks}]

\* one output of a listed transaction
StepOutput(st, self, tx_id, to) ==
    LET ks == KeysAt(st.db, self, to.address)
        item == {o \in st.db.outs : o.transaction_id = tx_id /\ o.output_n = to.output_n}
        new_tx_item == [id |-> NextId(st.db.outs), transaction_id |-> tx_id,
                        output_n |-> to.output_n, value |-> to.value,
                        key_id |-> KeyIdAt(ks), spent |-> to.spent]
    IN  IF st.err \/ Cardinality(ks) > 1 \/ Cardinality(item) > 1
        THEN [st EXCEPT !.err = TRUE]
        ELSE [st EXCEPT !.db = [@ EXCEPT !.keys = MarkUsed(@, ks),
                                         !.outs = IF item = {} THEN @ \cup {new_tx_item} ELSE @],
                        !.key_ids = @ \cup {k.id : k \in ks},
                        !.no_spent_info = @ \/ (item = {} /\ to.spent = "none")]

RECURSIVE TxInputs(_, _, _, _, _)
TxInputs(st, self, tx_id, tis, i) ==
    IF i > Len(tis) THEN st
    ELSE TxInputs(StepInput(st, self, tx_id, tis[i]), self, tx_id, tis, i + 1)

RECURSIVE TxOutputs(_, _, _, _, _)
TxOutputs(st, self, tx_id, tos, i) ==
    IF i > Len(tos) THEN st
    ELSE TxOutputs(StepOutput(st, self, tx_id, tos[i]), self, tx_id, tos, i + 1)

\* the stored transaction with this hash, of any wallet, or a new row
TxKnown(db, tx) == {t \in db.txs : t.hash = tx.hash}
TxId(db, tx) == IF TxKnown(db, tx) = {} THEN NextId(db.txs) ELSE First(TxKnown(db, tx)).id

TxAdded(st, self, tx) ==
    IF st.err \/ Cardinality(TxKnown(st.db, tx)) > 1 THEN [st EXCEPT !.err = TRUE]
    ELSE IF TxKnown(st.db, tx) # {} THEN st
    ELSE [st EXCEPT !.db = [@ EXCEPT !.txs = @ \cup {[id |-> NextId(@), wallet_id |-> self.wallet_id,
                                                      hash |-> tx.hash,
                                                      confirmations |-> tx.confirmations]}]]

StepTx(st, self, tx) ==
    TxOutputs(TxInputs(TxAdded(st, self, tx), self, TxId(st.db, tx), tx.inputs, 1),
              self, TxId(st.db, tx), tx.outputs, 1)

RECURSIVE TxLoop(_, _, _, _)
TxLoop(st, self, list, i) ==
    IF i > Len(list) THEN st ELSE TxLoop(StepTx(st, self, list[i]), self, list, i + 1)

TxsDone(st) ==
    IF st.err THEN [db |-> st.db, err |-> TRUE]
    ELSE IF st.no_spent_info THEN utxos_update_from_transactions(st.db, st.key_ids)
    ELSE [db |-> st.db, err |-> FALSE]

\* res is what Service.gettransactions answers: a list, or False
transactions_update(db, self, res) ==
    IF ~res.ok THEN [db |-> db, err |-> TRUE]
    ELSE TxsDone(TxLoop([db |-> db, err |-> FALSE, key_ids |-> {}, no_spent_info |-> FALSE],
                        self, res.list, 1))

(***************************************************************************)
(* The transaction composer: _select_inputs and transaction_create         *)
(***************************************************************************)
RECURSIVE SumNumbers(_)
SumNumbers(seq) == IF seq = <<>> THEN 0 ELSE Head(seq) + SumNumbers(Tail(seq))
SumAmounts(outputs) == SumNumbers([i \in 1..Len(outputs) |-> outputs[i].amount])
SumInputs(inputs) == SumNumbers([i \in 1..Len(inputs) |-> inputs[i].value])

\* order_by(value.desc())
RECURSIVE DescByValue(_)
DescByValue(rows) ==
    IF rows = {} THEN <<>>
    ELSE LET o == CHOOSE x \in rows : \A y \in rows :
                      x.value > y.value \/ (x.value = y.value /\ x.id <= y.id)
         IN <<o>> \o DescByValue(rows \ {o})

\* lessers[:max_utxos]
Take(seq, n) == IF n = Nil THEN seq ELSE SubSeq(seq, 1, Min({n, Len(seq)}))

\* every lesser output of the list is added, whatever the total is
AccumulateAll(list, i, amount, total_amount, selected_utxos) ==
    IF total_amount + SumNumbers([j \in 1..Len(list) |-> list[j].value]) < amount
    THEN <<>> ELSE list

\* the largest output instead of the smallest sufficient one
SelectLargest(amount, rows, max_utxos) ==
    IF rows = {} THEN <<>> ELSE <<DescByValue(rows)[1]>>

\* the loop over the lesser outputs: add them while the total is short
RECURSIVE Accumulate(_, _, _, _, _)
Accumulate(list, i, amount, total_amount, selected_utxos) ==
    IF i > Len(list)
    THEN IF total_amount < amount THEN <<>> ELSE selected_utxos
    ELSE IF total_amount < amount
    THEN Accumulate(list, i + 1, amount, total_amount + list[i].value,
                    Append(selected_utxos, list[i]))
    ELSE Accumulate(list, i + 1, amount, total_amount, selected_utxos)

select_inputs(amount, rows, max_utxos) ==
    LET enough == {o \in rows : o.value >= amount}
        one_utxo == CHOOSE o \in enough : \A p \in enough :
                        o.value < p.value \/ (o.value = p.value /\ o.id <= p.id)
    IN  IF enough # {} THEN <<one_utxo>>
        ELSE IF ~Falsy(max_utxos) /\ max_utxos <= 1 THEN <<>>
        ELSE Accumulate(Take(DescByValue({o \in rows : o.value < amount}), max_utxos),
                        1, amount, 0, <<>>)

\* an entry of input_arr: (prev_hash, output_n, key_id, value)
InputEntry(prev_hash, output_n, key_id, value) ==
    [prev_hash |-> prev_hash, output_n |-> output_n, key_id |-> key_id, value |-> value]

NoTransaction == [network |-> "", inputs |-> <<>>, outputs |-> <<>>,
                  fee |-> Nil, fee_per_kb |-> Nil, change |-> 0]
TcFailed(db) == [db |-> db, err |-> TRUE, transaction |-> NoTransaction]

\* tr_size = 100 + (1 * 150) + (len(output_arr) + 1 * 50)
TrSize(output_arr) == 100 + (1 * 150) + (Len(output_arr) + 1 * 50)

\* fee, fee_per_kb and fee_per_output; est is what Service.estimatefee answers
FeeOf(output_arr, input_arr, transaction_fee, est) ==
    IF transaction_fee # Nil
    THEN [fee |-> transaction_fee, fee_per_kb |-> Nil, fee_per_output |-> Nil]
    ELSE IF input_arr = <<>>
    THEN [fee |-> (TrSize(output_arr) * est) \div 1024, fee_per_kb |-> est,
          fee_per_output |-> (50 * est) \div 1024]
    ELSE [fee |-> 0, fee_per_kb |-> Nil, fee_per_output |-> Nil]

\* input_arr is None: the unspent outputs of the account, then _select_inputs
SelectedInputs(db, self, d, amount, min_confirms, max_utxos) ==
    LET rows == {o \in UnspentOf(db, self.wallet_id, min_confirms) :
                    KeyRow(db, o.key_id).account_id = d.account_id}
        selected_utxos == select_inputs(amount, rows, max_utxos)
    IN  IF rows = {} \/ selected_utxos = <<>> THEN [err |-> TRUE, arr |-> <<>>, total |-> 0]
        ELSE [err |-> FALSE,
              arr |-> [i \in 1..Len(selected_utxos) |->
                          InputEntry(TxOf(db, selected_utxos[i]).hash,
                                     selected_utxos[i].output_n,
                                     selected_utxos[i].key_id, selected_utxos[i].value)],
              total |-> SumNumbers([i \in 1..Len(selected_utxos) |-> selected_utxos[i].value])]

\* input_arr is given: key_id and value come from the store when both are empty
RECURSIVE GivenInputs(_, _, _, _, _)
GivenInputs(db, self, input_arr, i, acc) ==
    IF i > Len(input_arr) \/ acc.err THEN acc
    ELSE LET inp == input_arr[i]
             found == {o \in db.outs : /\ o.output_n = inp.output_n
                                       /\ HasKey(db, o.key_id)
                                       /\ TxOf(db, o).wallet_id = self.wallet_id
                                       /\ TxOf(db, o).hash = inp.prev_hash}
         IN  IF ~(Falsy(inp.key_id) /\ Falsy(inp.value))
             THEN GivenInputs(db, self, input_arr, i + 1,
                              [acc EXCEPT !.arr = Append(@, inp), !.total = @ + inp.value])
             ELSE IF found = {} THEN [acc EXCEPT !.err = TRUE]
             ELSE GivenInputs(db, self, input_arr, i + 1,
                              [acc EXCEPT !.arr = Append(@, InputEntry(inp.prev_hash, inp.output_n,
                                                                       First(found).key_id,
                                                                       First(found).value)),
                                          !.total = First(found).value])

InputsFor(db, self, d, input_arr, amount, min_confirms, max_utxos) ==
    IF input_arr = <<>> THEN SelectedInputs(db, self, d, amount, min_confirms, max_utxos)
    ELSE GivenInputs(db, self, input_arr, 1, [err |-> FALSE, arr |-> <<>>, total |-> 0])

\* the keys of a multisig key row, in key_order
RECURSIVE ChildKeys(_, _, _)
ChildKeys(db, key, i) ==
    LET ls == {l \in db.links : l.parent_id = key.id /\ l.key_order = i}
    IN  IF ls = {} THEN <<>>
        ELSE <<[key_id |-> (CHOOSE l \in ls : TRUE).child_id,
                public_key |-> KeyRow(db, (CHOOSE l \in ls : TRUE).child_id).public,
                priv |-> KeyRow(db, (CHOOSE l \in ls : TRUE).child_id).is_private]>>
             \o ChildKeys(db, key, i + 1)

\* Transaction.add_input: the input of the codec and the address it derives
AddInput(db, self, inp, key) ==
    IF key.key_type = "multisig"
    THEN [prev_hash |-> inp.prev_hash, output_n |-> inp.output_n, key_id |-> inp.key_id,
          value |-> inp.value, script_type |-> "p2sh_multisig",
          keys |-> ChildKeys(db, key, 0), sigs_required |-> self.multisig_n_required,
          signatures |-> 0,
          address |-> P2shAddress(serialize_multisig_redeemscript(
                          [i \in 1..Len(MultisigKeyOrder(ChildKeys(db, key, 0), self.sort_keys)) |->
                              MultisigKeyOrder(ChildKeys(db, key, 0), self.sort_keys)[i].public_key],
                          self.multisig_n_required))]
    ELSE [prev_hash |-> inp.prev_hash, output_n |-> inp.output_n, key_id |-> inp.key_id,
          value |-> inp.value, script_type |-> "p2pkh",
          keys |-> <<[key_id |-> key.id, public_key |-> key.public, priv |-> key.is_private]>>,
          sigs_required |-> 1, signatures |-> 0,
          address |-> P2pkhAddress(PublicHex(KeyOfRow(key)))]

\* the loop that adds the inputs: the key of each input must be stored, of a
\* supported type, and the address of the input must be the address of the key
RECURSIVE Assemble(_, _, _, _, _)
Assemble(db, self, arr, i, acc) ==
    IF i > Len(arr) \/ acc.err THEN acc
    ELSE LET ks == {k \in db.keys : k.id = arr[i].key_id}
         IN  IF ks = {} THEN [acc EXCEPT !.err = TRUE]
             ELSE IF First(ks).key_type \notin {"multisig", "bip32", "single"}
             THEN [acc EXCEPT !.err = TRUE]
             ELSE IF AddInput(db, self, arr[i], First(ks)).address # First(ks).address
             THEN [acc EXCEPT !.err = TRUE]
             ELSE Assemble(db, self, arr, i + 1,
                           [acc EXCEPT !.inputs = Append(@, AddInput(db, self, arr[i], First(ks)))])

TcAssembled(db, d, f, change, outputs, a) ==
    IF a.err THEN TcFailed(db)
    ELSE [db |-> db, err |-> FALSE,
          transaction |-> [network |-> d.network, inputs |-> a.inputs, outputs |-> outputs,
                           fee |-> f.fee, fee_per_kb |-> f.fee_per_kb, change |-> change]]

TcAssemble(db, self, d, f, change, outputs, arr) ==
    TcAssembled(db, d, f, change, outputs,
                Assemble(db, self, arr, 1, [err |-> FALSE, inputs |-> <<>>]))

TcChangeKey(ck, self, d, f, change, output_arr, arr) ==
    IF ck.err THEN TcFailed(ck.db)
    ELSE TcAssemble(ck.db, self, d, f, change,
                    Append(output_arr, [address |-> KeyRow(ck.db, ck.key_list[1]).address,
                                        amount |-> change]),
                    arr)

\* a change below fee_per_output is skipped; the fee stays as it was set
TcChange(db, self, d, f, change, output_arr, arr) ==
    IF change < 0 THEN TcFailed(db)
    ELSE IF change = 0 \/ (~Falsy(f.fee_per_output) /\ change < f.fee_per_output)
    THEN TcAssemble(db, self, d, f, 0, output_arr, arr)
    ELSE TcChangeKey(get_key(db, self, d.account_id, d.network, 1, 1, AddressDepth),
                     self, d, f, change, output_arr, arr)

TcInputs(db, self, d, f, output_arr, r) ==
    IF r.err THEN TcFailed(db)
    ELSE TcChange(db, self, d, f, r.total - (SumAmounts(output_arr) + f.fee), output_arr, r.arr)

TcFee(db, self, d, f, output_arr, input_arr, min_confirms, max_utxos) ==
    TcInputs(db, self, d, f, output_arr,
             InputsFor(db, self, d, input_arr, SumAmounts(output_arr) + f.fee,
                       min_confirms, max_utxos))

TcDefaults(db, self, d, output_arr, input_arr, transaction_fee, min_confirms, max_utxos, est) ==
    IF transaction_fee = Nil /\ input_arr = <<>> /\ est = Nil THEN TcFailed(db)
    ELSE TcFee(db, self, d, FeeOf(output_arr, input_arr, transaction_fee, est),
               output_arr, input_arr, min_confirms, max_utxos)

\* output_arr is a list of (address, amount); input_arr = <<>> stands for None;
\* transaction_fee = Nil stands for None; est = Nil for no fee estimate
transaction_create(db, self, output_arr, input_arr, account_id, network, transaction_fee, min_confirms, max_utxos, est) ==
    IF input_arr # <<>> /\ ~Falsy(max_utxos) /\ Len(input_arr) > max_utxos THEN TcFailed(db)
    ELSE TcDefaults(db, self, get_account_defaults(db, self, network, account_id),
                    output_arr, input_arr, transaction_fee, min_confirms, max_utxos, est)

(***************************************************************************)
(* HDWallet.transaction_sign and transaction_send                          *)
(***************************************************************************)
\* a private key for the key k of an input: its own, or one stored in this
\* wallet or its cosigner wallets
PrivateAtHand(db, self, k) ==
    \/ k.priv
    \/ /\ CosignerWallets(db, self.wallet_id) # <<>>
       /\ \E r \in db.keys :
             /\ r.public = k.public_key
             /\ r.is_private
             /\ r.wallet_id \in Range(CosignerWallets(db, self.wallet_id)) \cup {self.wallet_id}

\* Transaction.sign: one signature for each key whose private key is given
SignInput(db, self, ti) ==
    [ti EXCEPT !.signatures =
        Max({@, Cardinality({i \in 1..Len(ti.keys) : PrivateAtHand(db, self, ti.keys[i])})})]

transaction_sign(db, self, transaction) ==
    [transaction EXCEPT !.inputs = [i \in 1..Len(@) |-> SignInput(db, self, @[i])]]

\* Transaction.verify: every input carries the signatures its script asks for
Verify(transaction) ==
    /\ transaction.inputs # <<>>
    /\ \A i \in 1..Len(transaction.inputs) :
          transaction.inputs[i].signatures >= transaction.inputs[i].sigs_required

\* every stored output an input of the transaction refers to becomes spent
MarkInputsSpent(db, transaction) ==
    [db EXCEPT !.outs =
        {IF \E i \in 1..Len(transaction.inputs) :
                /\ TxOf(db, o).hash = transaction.inputs[i].prev_hash
                /\ o.output_n = transaction.inputs[i].output_n
         THEN [o EXCEPT !.spent = "true"] ELSE o : o \in db.outs}]

\* what transaction_send returns and how often it called sendrawtransaction
SendResult(db, error, transaction, txid, provider) ==
    [db |-> db, err |-> FALSE, provider |-> provider,
     ret |-> [error |-> error, transaction |-> transaction, txid |-> txid]]

\* the stored outputs are marked whatever the provider answered
PushedAnyway(db, transaction, res) ==
    SendResult(MarkInputsSpent(db, transaction), ~res.ok, transaction, res.txid, 1)

\* res is what Service.sendrawtransaction answers
Pushed(db, transaction, res) ==
    IF ~res.ok THEN SendResult(db, TRUE, transaction, "", 1)
    ELSE SendResult(MarkInputsSpent(db, transaction), FALSE, NoTransaction, res.txid, 1)

transaction_send(db, transaction, offline, res) ==
    IF ~Verify(transaction) THEN SendResult(db, TRUE, transaction, "", 0)
    ELSE IF offline THEN SendResult(db, FALSE, transaction, "", 0)
    ELSE Pushed(db, transaction, res)

(***************************************************************************)
(* HDWallet.send and HDWallet.sweep                                        *)
(***************************************************************************)
SendFailed(db, steps) ==
    [db |-> db, err |-> TRUE, steps |-> steps, provider |-> 0,
     first |-> NoTransaction, submitted |-> NoTransaction, ret |-> <<>>]

\* return self.transaction_send(transaction, offline)
SendSubmitted(r, steps, first, transaction) ==
    [db |-> r.db, err |-> FALSE, steps |-> Append(steps, "submit"), provider |-> r.provider,
     first |-> first, submitted |-> transaction, ret |-> r.ret]

SendSubmit(db, steps, first, transaction, offline, res) ==
    SendSubmitted(transaction_send(db, transaction, offline, res), steps, first, transaction)

\* the transaction is created again with the exact fee and signed again
SendRecreated(tc, self, steps, first, offline, res) ==
    IF tc.err THEN SendFailed(tc.db, Append(steps, "recompose"))
    ELSE SendSubmit(tc.db, steps \o <<"recompose", "re-sign">>, first,
                    transaction_sign(tc.db, self, tc.transaction), offline, res)

Abs(x) == IF x < 0 THEN 0 - x ELSE x

\* fee_exact and abs((transaction.fee - fee_exact) / float(fee_exact)) > 0.10
FeeOff(fee, fee_exact) == fee_exact # 0 /\ 10 * Abs(fee - fee_exact) > Abs(fee_exact)

\* fee_exact is what Transaction.estimate_fee answers for the signed transaction
SendSigned(db, self, a, transaction, fee_exact, offline, res) ==
    IF ~(a.transaction_fee = Nil /\ ~Falsy(transaction.fee_per_kb) /\ transaction.change # 0)
    THEN SendSubmit(db, <<"compose", "sign">>, transaction, transaction, offline, res)
    ELSE IF ~FeeOff(transaction.fee, fee_exact)
    THEN SendSubmit(db, <<"compose", "sign", "compare">>, transaction, transaction, offline, res)
    ELSE SendRecreated(transaction_create(db, self, a.output_arr, a.input_arr, a.account_id,
                                          a.network, fee_exact, a.min_confirms, a.max_utxos,
                                          a.est),
                       self, <<"compose", "sign", "compare">>, transaction, offline, res)

SendCreated(tc, self, a, fee_exact, offline, res) ==
    IF tc.err THEN SendFailed(tc.db, <<"compose">>)
    ELSE SendSigned(tc.db, self, a, transaction_sign(tc.db, self, tc.transaction),
                    fee_exact, offline, res)

\* a holds output_arr, input_arr (<<>> for None), account_id, network,
\* transaction_fee, min_confirms, max_utxos and the provider's fee estimate
send(db, self, a, fee_exact, offline, res) ==
    IF a.input_arr # <<>> /\ ~Falsy(a.max_utxos) /\ Len(a.input_arr) > a.max_utxos
    THEN SendFailed(db, <<>>)
    ELSE SendCreated(transaction_create(db, self, a.output_arr, a.input_arr, a.account_id,
                                        a.network, a.transaction_fee, a.min_confirms,
                                        a.max_utxos, a.est),
                     self, a, fee_exact, offline, res)

\* Network.dust_ignore_amount of the network definitions, the same in every
\* network here
dust_ignore_amount(network) == 400

\* order_by(DbTransaction.confirmations.desc()): every order of the rows the
\* database may answer
ByConfirmations(db, rows) ==
    {s \in [1..Cardinality(rows) -> rows] :
        /\ \A i, j \in DOMAIN s : i # j => s[i] # s[j]
        /\ \A i, j \in DOMAIN s :
              i < j => TxOf(db, s[i]).confirmations >= TxOf(db, s[j]).confirmations}

SweepEntry(db, o) == InputEntry(TxOf(db, o).hash, o.output_n, o.key_id, o.value)

\* utxos[0:max_utxos]
SweepSlice(order, max_utxos) == SubSeq(order, 1, Min({max_utxos, Len(order)}))

\* the loop that skips dust and collects the inputs
RECURSIVE SweepInputs(_, _, _, _)
SweepInputs(db, self, rows, i) ==
    IF i > Len(rows) THEN <<>>
    ELSE IF rows[i].value < dust_ignore_amount(self.network)
    THEN SweepInputs(db, self, rows, i + 1)
    ELSE <<SweepEntry(db, rows[i])>> \o SweepInputs(db, self, rows, i + 1)

\* tr_size = 125 + (len(input_arr) * 125); int((tr_size / 1024.0) * fee_per_kb)
SweepFee(input_arr, fee_per_kb) == ((125 + (Len(input_arr) * 125)) * fee_per_kb) \div 1024

SweepArgs(to_address, amount, input_arr, network, fee, min_confirms) ==
    [output_arr |-> <<[address |-> to_address, amount |-> amount]>>, input_arr |-> input_arr,
     account_id |-> Nil, network |-> network, transaction_fee |-> fee,
     min_confirms |-> min_confirms, max_utxos |-> Nil, est |-> Nil]

\* send with an input_arr that is the empty list, not None: the loop over the
\* given inputs of transaction_create adds nothing
SendNoInputs(db, self, a, offline, res) ==
    SendCreated(TcInputs(db, self, get_account_defaults(db, self, a.network, a.account_id),
                         FeeOf(a.output_arr, a.input_arr, a.transaction_fee, a.est),
                         a.output_arr, [err |-> FALSE, arr |-> <<>>, total |-> 0]),
                self, a, Nil, offline, res)

SweepSend(db, self, a, offline, res) ==
    IF a.input_arr = <<>> THEN SendNoInputs(db, self, a, offline, res)
    ELSE send(db, self, a, Nil, offline, res)

SweepCollected(db, self, d, to_address, input_arr, fee_per_kb, min_confirms, offline, res) ==
    SweepSend(db, self,
              SweepArgs(to_address, SumInputs(input_arr) - SweepFee(input_arr, fee_per_kb),
                        input_arr, d.network, SweepFee(input_arr, fee_per_kb), min_confirms),
              offline, res)

\* return False
SweepNothing(db) ==
    [db |-> db, err |-> FALSE, steps |-> <<>>, provider |-> 0,
     first |-> NoTransaction, submitted |-> NoTransaction, ret |-> <<>>]

\* order is the answer of self.utxos; fee_per_kb = Nil asks the provider, which
\* answers est
sweep(db, self, d, to_address, order, max_utxos, min_confirms, fee_per_kb, est, offline, res) ==
    IF SweepSlice(order, max_utxos) = <<>> THEN SweepNothing(db)
    ELSE SweepCollected(db, self, d, to_address,
                        SweepInputs(db, self, SweepSlice(order, max_utxos), 1),
                        IF fee_per_kb = Nil THEN est ELSE fee_per_kb,
                        min_confirms, offline, res)

(***************************************************************************)
(* HDWallet.scan                                                           *)
(***************************************************************************)
RecursionCap == 10

\* one entry of the trace for each branch a call of scan runs: the change of
\* the branch, the nesting level, the keys get_key gave, the calls of
\* utxos_update and the new UTXOs they counted
ScanEntry(change, level, keys_given, updates, found) ==
    [change |-> change, level |-> level, keys |-> keys_given, updates |-> updates,
     found |-> found]

ScanEnded(db, err, trace) == [db |-> db, err |-> err, trace |-> trace]

\* the transactions the chain holds for the addresses scan asks about: finds[c + 1]
\* is the number of nesting levels at which the first key of change c has one
ScanHashes ==
    <<<<"A1", "A2", "A3", "A4", "A5", "A6", "A7", "A8", "A9", "A10", "A11">>,
      <<"B1", "B2", "B3", "B4", "B5", "B6", "B7", "B8", "B9", "B10", "B11">>>>

ScanAnswer(db, key_id, i, change, level, finds) ==
    IF i = 1 /\ level <= finds[change + 1]
    THEN [ok |-> TRUE,
          list |-> <<[tx_hash |-> ScanHashes[change + 1][level], output_n |-> 0,
                      value |-> 1000, confirmations |-> 10,
                      address |-> KeyRow(db, key_id).address]>>]
    ELSE [ok |-> TRUE, list |-> <<>>]

\* for new_key_id in new_key_ids: nr_new_utxos += self.utxos_update(change=c, key_id=new_key_id)
RECURSIVE ScanUpdates(_, _, _, _, _, _, _, _)
ScanUpdateNext(u, self, key_list, i, change, level, finds, nr) ==
    IF u.err THEN [db |-> u.db, err |-> TRUE, nr |-> nr, updates |-> i]
    ELSE ScanUpdates(u.db, self, key_list, i + 1, change, level, finds, nr + u.ret)

ScanUpdates(db, self, key_list, i, change, level, finds, nr) ==
    IF i > Len(key_list) THEN [db |-> db, err |-> FALSE, nr |-> nr, updates |-> i - 1]
    ELSE ScanUpdateNext(utxos_update(db, NoBalances, self, Nil, "", key_list[i],
                                     ScanAnswer(db, key_list[i], i, change, level, finds),
                                     "first"),
                        self, key_list, i, change, level, finds, nr)

RECURSIVE scan(_, _, _, _, _, _, _)

\* if nr_new_utxos: self.scan(scan_depth, account_id, change=c, ...)
ScanUpdated(u, self, scan_depth, change, level, finds, trace, n) ==
    IF u.err THEN ScanEnded(u.db, "WalletError",
                            Append(trace, ScanEntry(change, level, n, u.updates, u.nr)))
    ELSE IF u.nr # 0
    THEN scan(u.db, self, scan_depth, change, level, finds,
              Append(trace, ScanEntry(change, level, n, u.updates, u.nr)))
    ELSE ScanEnded(u.db, "", Append(trace, ScanEntry(change, level, n, u.updates, u.nr)))

\* get_key returns the key itself, not a list, when it holds one key: the
\* comprehension over it raises TypeError
ScanKeys(gk, self, scan_depth, change, level, finds, trace) ==
    IF gk.err THEN ScanEnded(gk.db, "WalletError", trace)
    ELSE IF Len(gk.key_list) = 1
    THEN ScanEnded(gk.db, "TypeError", Append(trace, ScanEntry(change, level, 1, 0, 0)))
    ELSE ScanUpdated(ScanUpdates(gk.db, self, gk.key_list, 1, change, level, finds, 0),
                     self, scan_depth, change, level, finds, trace, Len(gk.key_list))

ScanBranch(db, self, scan_depth, change, level, finds, trace) ==
    ScanKeys(get_key(db, self, Nil, "", scan_depth, change, AddressDepth),
             self, scan_depth, change, level, finds, trace)

\* if change != 0: the branch of the change keys
ScanSecond(r, self, scan_depth, change, level, finds) ==
    IF r.err # "" \/ change = 0 THEN r
    ELSE ScanBranch(r.db, self, scan_depth, 1, level, finds, r.trace)

\* if change != 1: the branch of the payment keys
ScanFirst(db, self, scan_depth, change, level, finds, trace) ==
    IF change = 1 THEN ScanEnded(db, "", trace)
    ELSE ScanBranch(db, self, scan_depth, 0, level, finds, trace)

\* change = Nil stands for None; account_id and network are left at their defaults
scan(db, self, scan_depth, change, recursion_depth, finds, trace) ==
    IF recursion_depth > RecursionCap THEN ScanEnded(db, "WalletError", trace)
    ELSE IF self.scheme # "bip44" /\ self.scheme # "multisig"
    THEN ScanEnded(db, "WalletError", trace)
    ELSE ScanSecond(ScanFirst(db, self, scan_depth, change, recursion_depth + 1, finds, trace),
                    self, scan_depth, change, recursion_depth + 1, finds)

(***************************************************************************)
(* wallet_delete                                                           *)
(***************************************************************************)
\* the session's deletes and updates for one wallet, committed together
DeleteRows(db, wallet_id) ==
    LET ks == {k.id : k \in {r \in db.keys : r.wallet_id = wallet_id}}
    IN  [db EXCEPT !.outs = {IF o.key_id \in ks THEN [o EXCEPT !.key_id = Nil] ELSE o : o \in @},
                   !.ins = {IF i.key_id \in ks THEN [i EXCEPT !.key_id = Nil] ELSE i : i \in @},
                   !.links = {l \in @ : l.parent_id \notin ks /\ l.child_id \notin ks},
                   !.keys = {k \in @ : k.wallet_id # wallet_id},
                   !.wallets = {w \in @ : w.id # wallet_id}]

\* a key that keeps the wallet from being deleted, whatever force says
NonEmptyKeyForced(force, k) == FALSE

NonEmptyKey(force, k) == ~force /\ k.balance # 0

RECURSIVE wallet_delete(_, _, _)
RECURSIVE DeleteCosigners(_, _, _)
DeleteNext(r, cws, force) ==
    IF r.err THEN r ELSE DeleteCosigners(r.db, cws, force)

\* the cosigner wallets are left in the store
KeepCosigners(db, cws, force) == [db |-> db, err |-> FALSE, open |-> 0]

\* the cosigner wallets are deleted one by one after the commit
DeleteCosigners(db, cws, force) ==
    IF cws = <<>> THEN [db |-> db, err |-> FALSE, open |-> 0]
    ELSE DeleteNext(wallet_delete(db, Head(cws), force), Tail(cws), force)

\* open is the number of sessions the call opened and left without close():
\* the session is closed after the commit only
wallet_delete(db, wallet, force) ==
    IF ~\E w \in db.wallets : w.id = wallet THEN [db |-> db, err |-> TRUE, open |-> 1]
    ELSE IF \E k \in db.keys : k.wallet_id = wallet /\ NonEmptyKey(force, k)
    THEN [db |-> db, err |-> TRUE, open |-> 1]
    ELSE DeleteCosigners(DeleteRows(db, wallet),
                         SortedIds({cw.id : cw \in {w \in db.wallets : w.parent_id = wallet}}),
                         force)

(***************************************************************************)
(* Inputs of the key-tree operations.                                      *)
(***************************************************************************)
Roots == {1, 2}
Names == {"a", "b"}

MasterKey(root, net) == HDKey(root, <<>>, TRUE, "bip32", net)
SingleKey(root, net) == HDKey(root, <<>>, TRUE, "single", net)
AccountPublicKey(root, purpose, net) ==
    HDKey(root, <<[i |-> purpose, h |-> TRUE], [i |-> Bip44Cointype(net), h |-> TRUE],
                  [i |-> 0, h |-> TRUE]>>, FALSE, "bip32", net)

NoLast == [op |-> "", w |-> 0, raised |-> FALSE, ret |-> <<>>, path |-> <<>>,
           arg |-> <<>>, provider |-> 0]
Did(op, w, raised, ret, path) ==
    [op |-> op, w |-> w, raised |-> raised, ret |-> ret, path |-> path,
     arg |-> <<>>, provider |-> 0]

\* one more call, of at most n
Call(n) == calls < n /\ calls' = calls + 1

Store(db) ==
    /\ wallets' = db.wallets
    /\ keys' = db.keys
    /\ links' = db.links
    /\ txs' = db.txs
    /\ outs' = db.outs
    /\ ins' = db.ins

KeyResult(op, w, r, path) ==
    /\ Store(r.db)
    /\ last' = Did(op, w, r.err, IF r.err THEN <<>> ELSE <<r.key_id>>, path)
    /\ UNCHANGED <<balances, given, held, sessions, threads>>

InitEmpty ==
    /\ wallets = {} /\ keys = {} /\ links = {}
    /\ txs = {} /\ outs = {} /\ ins = {}
    /\ balances = <<>>
    /\ last = NoLast
    /\ given = <<>>
    /\ held = NoTransaction
    /\ sessions = 0
    /\ threads = <<>>
    /\ calls = 0

(***************************************************************************)
(* The key-tree operations as actions.                                     *)
(***************************************************************************)
WalletResult(op, r) ==
    /\ Store(r.db)
    /\ last' = Did(op, r.wallet_id, r.err, <<>>, <<>>)
    /\ UNCHANGED <<balances, given, held, sessions, threads>>

MultisigResult(op, r, key_list) ==
    /\ Store(r.db)
    /\ last' = Did(op, r.wallet_id, r.err, <<>>, <<>>)
    /\ given' = IF r.err THEN given ELSE (r.wallet_id :> key_list) @@ given
    /\ UNCHANGED <<balances, held, sessions, threads>>

Create(name, scheme, key) ==
    WalletResult("create",
                 create(DB, WalletName(name, Nil), key, "", 0, DefaultPurpose, scheme, 0, FALSE))

CreateMultisig(name, key_list, sigs_required, sort_keys) ==
    MultisigResult("create_multisig",
                   create_multisig(DB, WalletName(name, Nil), key_list, sigs_required, "", 0,
                                   MultisigPurpose, sort_keys),
                   key_list)

NewAccount(w, account_id, network) ==
    KeyResult("new_account", w, new_account(DB, Self(DB, w), account_id, network), <<>>)

NewKey(w, change) ==
    KeyResult("new_key", w, new_key(DB, Self(DB, w), Nil, "", change, AddressDepth), <<>>)

KeyListResult(op, w, r) ==
    /\ Store(r.db)
    /\ last' = Did(op, w, r.err, IF r.err THEN <<>> ELSE r.key_list, <<>>)
    /\ UNCHANGED <<balances, given, held, sessions, threads>>

GetKey(w, change, number_of_keys) ==
    KeyListResult("get_key", w,
                  get_key(DB, Self(DB, w), Nil, "", number_of_keys, change, AddressDepth))

ImportKey(w, key, key_type) ==
    KeyResult("import_key", w, import_key(DB, Self(DB, w), key, 0, DefaultPurpose, key_type),
              <<>>)

KeyForPath(w, path) ==
    KeyResult("key_for_path", w, key_for_path(DB, Self(DB, w), path, 0, 0, TRUE), path)

\* a direct call of _create_keys_from_path with an existing key as parent and
\* that key's path as basepath
CreateKeysFromParent(w, p, level) ==
    KeyResult("_create_keys_from_path", w,
              create_keys_from_path(DB, Self(DB, w), HDWalletKeyOf(p), <<level>>,
                                    Ctx(w, p.account_id, p.network_name, 0, p.purpose), p.path),
              Append(p.path, level))

CreateKeysFromPath(w, parent_id, level) ==
    /\ \E p \in keys : p.id = parent_id /\ p.wallet_id = w /\ p.key_type = "bip32"
    /\ CreateKeysFromParent(w, KeyRow(DB, parent_id), level)

WalletIds == {r.id : r \in wallets}
KeyIds == {r.id : r \in keys}

\* two spellings of the first address path of account 0
AddressPaths ==
    {<<LvM, Lv("44", q), Lv("0", q), Lv("0", q), LvInt(0), LvInt(0)>> : q \in {"'", "h"}}

\* the scheme and key a wallet is created with
CreateInputs ==
    {[scheme |-> "bip44", key |-> MasterKey(1, DEFAULT_NETWORK)],
     [scheme |-> "bip44", key |-> AccountPublicKey(1, DefaultPurpose, DEFAULT_NETWORK)],
     [scheme |-> "single", key |-> SingleKey(2, DEFAULT_NETWORK)],
     [scheme |-> "electrum", key |-> MasterKey(2, DEFAULT_NETWORK)]}

NextKeys ==
    \/ \E name \in Names, c \in CreateInputs :
          Call(MaxKeyCalls) /\ Create(name, c.scheme, c.key)
    \/ \E name \in Names :
          /\ Call(MaxKeyCalls)
          /\ CreateMultisig(name, <<SingleKey(1, DEFAULT_NETWORK),
                                    SingleKey(2, DEFAULT_NETWORK)>>, 2, TRUE)
    \/ \E w \in WalletIds, a \in {<<Nil, "litecoin">>, <<0, "">>} :
          Call(MaxKeyCalls) /\ NewAccount(w, a[1], a[2])
    \/ \E w \in WalletIds, change \in {0, 1} :
          Call(MaxKeyCalls) /\ NewKey(w, change)
    \/ \E w \in WalletIds, n \in 1..2 :
          Call(MaxKeyCalls) /\ GetKey(w, 0, n)
    \/ \E w \in WalletIds, root \in Roots, key_type \in {"", "bip32"} :
          Call(MaxKeyCalls) /\ ImportKey(w, MasterKey(root, DEFAULT_NETWORK), key_type)
    \/ \E w \in WalletIds, path \in AddressPaths :
          Call(MaxKeyCalls) /\ KeyForPath(w, path)
    \/ \E w \in WalletIds, parent_id \in KeyIds, level \in {LvInt(0), LvHard(0)} :
          Call(MaxKeyCalls) /\ CreateKeysFromPath(w, parent_id, level)

SpecKeys == InitEmpty /\ [][NextKeys]_vars

(***************************************************************************)
(* Multisig wallets: create_multisig over a list of cosigner keys, and      *)
(* new_key on the multisig wallets.                                        *)
(***************************************************************************)
CosignerAccountKey(root) == AccountPublicKey(root, MultisigPurpose, DEFAULT_NETWORK)

MultisigKeyLists ==
    {<<CosignerAccountKey(1), CosignerAccountKey(2)>>,
     <<CosignerAccountKey(2), CosignerAccountKey(1)>>}

MultisigWalletIds == {r.id : r \in {x \in wallets : x.scheme = "multisig"}}

NextMultisig ==
    \/ \E name \in Names, key_list \in MultisigKeyLists, sigs_required \in {Nil, 1},
          sort_keys \in BOOLEAN :
          /\ Call(MaxMultisigCalls)
          /\ CreateMultisig(name, key_list, sigs_required, sort_keys)
    \/ \E w \in MultisigWalletIds :
          Call(MaxMultisigCalls) /\ NewKey(w, 0)

SpecMultisig == InitEmpty /\ [][NextMultisig]_vars

(***************************************************************************)
(* The ledger and composer operations as actions, on one bip44 wallet      *)
(* with a bitcoin and a litecoin account that holds one litecoin output.   *)
(***************************************************************************)
MaxLedgerCalls == 3

\* the address key of a network with the given address_index
AddressKey(db, network, index) ==
    CHOOSE k \in db.keys : /\ k.depth = AddressDepth
                           /\ k.network_name = network
                           /\ k.change = 0
                           /\ k.address_index = index

\* what the chain holds for the addresses of the wallet
Utxo(db, tx_hash, output_n, value, confirmations, network, index) ==
    [tx_hash |-> tx_hash, output_n |-> output_n, value |-> value,
     confirmations |-> confirmations, address |-> AddressKey(db, network, index).address]
UtxoA == Utxo(DB, "H1", 0, 1000, 10, "bitcoin", 0)
UtxoB == Utxo(DB, "H2", 0, 600, 10, "bitcoin", 1)
UtxoB2 == Utxo(DB, "H3", 0, 300, 0, "bitcoin", 1)
UtxoL == Utxo(DB, "H4", 0, 1000, 10, "litecoin", 0)

\* an address of somebody else
Dest == P2pkhAddress(PublicHex(MasterKey(3, DEFAULT_NETWORK)))

Answer(list) == [ok |-> TRUE, list |-> list]
NoAnswer == [ok |-> FALSE, list |-> <<>>]

\* the wallet is created, gets two bitcoin addresses, a litecoin account with
\* one address, and the first answer of the litecoin provider
LedgerWallet ==
    create(EmptyDB, WalletName("a", Nil), MasterKey(1, DEFAULT_NETWORK), "", 0,
           DefaultPurpose, "bip44", 0, FALSE)
LedgerKey(r, w, network) == new_key(r.db, Self(r.db, w), Nil, network, 0, AddressDepth)
LedgerAccount(r, w, network) == new_account(r.db, Self(r.db, w), Nil, network)
LedgerUtxos(r, w, network) ==
    utxos_update(r.db, NoBalances, Self(r.db, w), Nil, network, Nil,
                 Answer(<<Utxo(r.db, "H4", 0, 1000, 10, network, 0)>>), "first")
LedgerFunded(w) ==
    LedgerUtxos(LedgerKey(LedgerAccount(LedgerKey(LedgerKey(LedgerWallet, w, ""), w, ""),
                                         w, "litecoin"),
                          w, "litecoin"),
                w, "litecoin")

LedgerStart(w, r) ==
    /\ wallets = r.db.wallets
    /\ keys = r.db.keys
    /\ links = r.db.links
    /\ txs = r.db.txs
    /\ outs = r.db.outs
    /\ ins = r.db.ins
    /\ balances = (w :> r.obj)
    /\ last = NoLast
    /\ given = <<>>
    /\ held = NoTransaction
    /\ sessions = 0
    /\ threads = <<>>
    /\ calls = 0

InitLedger == LedgerStart(NextId({}), LedgerFunded(NextId({})))

\* the lists a provider can answer with
UtxoLists == {<<>>, <<UtxoA>>, <<UtxoB, UtxoB2>>, <<UtxoA, UtxoB, UtxoB2>>, <<UtxoL>>}

\* transactions that spend the outputs H1:0 and H4:0 to an address of somebody else
SpendOf(hash, utxo, spent) ==
    [hash |-> hash, confirmations |-> 1,
     inputs |-> <<[address |-> utxo.address, input_n |-> 0, value |-> utxo.value,
                   prev_hash |-> utxo.tx_hash]>>,
     outputs |-> <<[address |-> Dest, output_n |-> 0, value |-> utxo.value - 100,
                    spent |-> spent]>>]
TxLists == {<<SpendOf("H5", UtxoA, "false")>>, <<SpendOf("H6", UtxoL, "none")>>}

Cached(w) == IF w \in DOMAIN balances THEN balances[w] ELSE NoBalances

DidWith(op, w, raised, ret, arg, provider) ==
    [Did(op, w, raised, ret, <<>>) EXCEPT !.arg = arg, !.provider = provider]

LedgerResult(op, w, r, arg) ==
    /\ Store(r.db)
    /\ balances' = (w :> r.obj) @@ balances
    /\ last' = DidWith(op, w, r.err, IF r.err THEN <<>> ELSE <<r.ret>>, arg, 0)
    /\ UNCHANGED <<given, held, sessions, threads>>

\* utxos_update(network=network): the provider answers for the address list
UtxosUpdate(w, network, res, pick) ==
    /\ \A i \in 1..Len(res.list) :
          res.list[i].address \in addresslist(DB, Self(DB, w),
                                              get_account_defaults(DB, Self(DB, w), network, Nil),
                                              Nil, SchemeDepth(Self(DB, w)))
    /\ LedgerResult("utxos_update", w,
                    utxos_update(DB, Cached(w), Self(DB, w), Nil, network, Nil, res, pick),
                    [network |-> network])

BalanceUpdate(w, min_confirms, pick) ==
    LedgerResult("balance_update", w,
                 balance_update(DB, Cached(w), Self(DB, w), Nil, "", Nil, min_confirms, pick),
                 [min_confirms |-> min_confirms])

StoreResult(op, w, r, arg) ==
    /\ Store(r.db)
    /\ last' = DidWith(op, w, r.err, <<>>, arg, 0)
    /\ UNCHANGED <<balances, given, held, sessions, threads>>

\* transactions_update(network=network): the provider answers for the address list
TransactionsUpdate(w, network, res) ==
    /\ \A i \in 1..Len(res.list) :
          res.list[i].inputs[1].address
              \in addresslist(DB, Self(DB, w),
                              get_account_defaults(DB, Self(DB, w), network, Nil),
                              Nil, SchemeDepth(Self(DB, w)))
    /\ StoreResult("transactions_update", w, transactions_update(DB, Self(DB, w), res),
                   [network |-> network])

TransactionResult(w, r, arg) ==
    /\ Store(r.db)
    /\ held' = IF r.err THEN held ELSE r.transaction
    /\ last' = DidWith("transaction_create", w, r.err, <<>>, arg, 0)
    /\ UNCHANGED <<balances, given, sessions, threads>>

TransactionCreate(w, c) ==
    TransactionResult(w,
                      transaction_create(DB, Self(DB, w),
                                         <<[address |-> Dest, amount |-> c.amount]>>,
                                         c.input_arr, Nil, c.network, c.transaction_fee,
                                         1, Nil, c.est),
                      c)

TransactionSign(w) ==
    /\ held # NoTransaction
    /\ held' = transaction_sign(DB, Self(DB, w), held)
    /\ last' = DidWith("transaction_sign", w, FALSE, <<>>, <<>>, 0)
    /\ UNCHANGED <<wallets, keys, links, txs, outs, ins, balances, given, sessions, threads>>

SendDone(w, r, arg) ==
    /\ Store(r.db)
    /\ last' = DidWith("transaction_send", w, r.err, <<r.ret>>, arg, r.provider)
    /\ UNCHANGED <<balances, given, held, sessions, threads>>

TransactionSend(w, offline, res) ==
    /\ held # NoTransaction
    /\ SendDone(w, transaction_send(DB, held, offline, res),
                [offline |-> offline, ok |-> res.ok])

\* the arguments of transaction_create: amount of the one output, input_arr,
\* network, transaction_fee, and the provider's fee estimate per kB
CreateArgs(amount, input_arr, network, transaction_fee, est) ==
    [amount |-> amount, input_arr |-> input_arr, network |-> network,
     transaction_fee |-> transaction_fee, est |-> est]
TransactionArgs ==
    {CreateArgs(300, <<>>, "litecoin", 100, Nil),
     CreateArgs(300, <<>>, "litecoin", Nil, 2048),
     CreateArgs(200, <<>>, "litecoin", Nil, 2048),
     CreateArgs(300, <<>>, "", Nil, Nil),
     CreateArgs(300, <<>>, "", 100, Nil),
     CreateArgs(300, <<InputEntry("H1", 0, Nil, 0), InputEntry("H2", 0, Nil, 0)>>, "", 100, Nil)}

SendAnswers == {[ok |-> TRUE, txid |-> "T1"], [ok |-> FALSE, txid |-> ""]}

NextLedger ==
    \/ \E w \in WalletIds, network \in {"", "litecoin"}, list \in UtxoLists,
          pick \in {"first", "last"} :
          Call(MaxLedgerCalls) /\ UtxosUpdate(w, network, Answer(list), pick)
    \/ \E w \in WalletIds :
          Call(MaxLedgerCalls) /\ UtxosUpdate(w, "", NoAnswer, "first")
    \/ \E w \in WalletIds, min_confirms \in {0, 1}, pick \in {"first", "last"} :
          Call(MaxLedgerCalls) /\ BalanceUpdate(w, min_confirms, pick)
    \/ \E w \in WalletIds, network \in {"", "litecoin"}, list \in TxLists :
          Call(MaxLedgerCalls) /\ TransactionsUpdate(w, network, Answer(list))
    \/ \E w \in WalletIds :
          Call(MaxLedgerCalls) /\ TransactionsUpdate(w, "", NoAnswer)
    \/ \E w \in WalletIds, c \in TransactionArgs :
          Call(MaxLedgerCalls) /\ TransactionCreate(w, c)
    \/ \E w \in WalletIds :
          Call(MaxLedgerCalls) /\ TransactionSign(w)
    \/ \E w \in WalletIds, offline \in BOOLEAN, res \in SendAnswers :
          Call(MaxLedgerCalls) /\ TransactionSend(w, offline, res)

SpecLedger == InitLedger /\ [][NextLedger]_vars

(***************************************************************************)
(* wallet_delete as an action, on a multisig wallet of two cosigners that  *)
(* has one multisig key.                                                   *)
(***************************************************************************)
MaxDeleteCalls == 4

DeleteWallet ==
    create_multisig(EmptyDB, WalletName("a", Nil),
                    <<CosignerAccountKey(1), CosignerAccountKey(2)>>, Nil, "", 0,
                    MultisigPurpose, FALSE)
DeleteKey(r) == new_key(r.db, Self(r.db, r.wallet_id), Nil, "", 0, AddressDepth)

DeleteStart(r) ==
    /\ wallets = r.db.wallets
    /\ keys = r.db.keys
    /\ links = r.db.links
    /\ txs = r.db.txs
    /\ outs = r.db.outs
    /\ ins = r.db.ins
    /\ balances = <<>>
    /\ last = NoLast
    /\ given = <<>>
    /\ held = NoTransaction
    /\ sessions = 0
    /\ threads = <<>>
    /\ calls = 0

InitDelete == DeleteStart(DeleteKey(DeleteWallet))

\* what the chain holds for the multisig addresses of the wallets
MultisigUtxoLists ==
    {<<>>} \cup {<<[tx_hash |-> "H1", output_n |-> 0, value |-> 500, confirmations |-> 10,
                    address |-> k.address]>> : k \in {r \in keys : r.key_type = "multisig"}}
MultisigTxLists ==
    {<<[hash |-> "H2", confirmations |-> 1,
        inputs |-> <<[address |-> k.address, input_n |-> 0, value |-> 500,
                      prev_hash |-> "H0"]>>,
        outputs |-> <<[address |-> Dest, output_n |-> 0, value |-> 400,
                       spent |-> "false"]>>]>> : k \in {r \in keys : r.key_type = "multisig"}}

DeleteResult(w, r, arg) ==
    /\ Store(r.db)
    /\ last' = DidWith("wallet_delete", w, r.err, <<>>, arg, 0)
    /\ sessions' = sessions + r.open
    /\ UNCHANGED <<balances, given, held, threads>>

WalletDelete(wallet, force) ==
    DeleteResult(wallet, wallet_delete(DB, wallet, force), [force |-> force])

NextDelete ==
    \/ \E w \in WalletIds, list \in MultisigUtxoLists, pick \in {"first", "last"} :
          Call(MaxDeleteCalls) /\ UtxosUpdate(w, "", Answer(list), pick)
    \/ \E w \in WalletIds, list \in MultisigTxLists :
          Call(MaxDeleteCalls) /\ TransactionsUpdate(w, "", Answer(list))
    \/ \E wallet \in WalletIds \cup {NextId(wallets)}, force \in BOOLEAN :
          Call(MaxDeleteCalls) /\ WalletDelete(wallet, force)

SpecDelete == InitDelete /\ [][NextDelete]_vars

(***************************************************************************)
(* Wallet names: create, create_multisig, wallet_create_or_open and the    *)
(* name setter over a few names, a cosigner's name among them.             *)
(***************************************************************************)
MaxNameCalls == 3

WalletNames == {WalletName("a", Nil), WalletName("b", Nil), WalletName("a", 0)}

NameResult(op, w, r, name) ==
    /\ Store(r.db)
    /\ last' = DidWith(op, w, r.err, <<>>, [name |-> name], 0)
    /\ UNCHANGED <<balances, given, held, sessions, threads>>

CreateNamed(name, key) ==
    NameResult("create", 0,
               create(DB, name, key, "", 0, DefaultPurpose, "single", 0, FALSE), name)

CreateMultisigNamed(name, key_list) ==
    NameResult("create_multisig", 0,
               create_multisig(DB, name, key_list, Nil, "", 0, MultisigPurpose, FALSE), name)

WalletCreateOrOpen(name, key) ==
    NameResult("wallet_create_or_open", 0,
               wallet_create_or_open(DB, name, key, "", 0, DefaultPurpose, "single", 0, FALSE),
               name)

SetName(w, value) ==
    NameResult("name", w, name_setter(DB, Self(DB, w), value), value)

NextNames ==
    \/ \E name \in WalletNames, root \in Roots :
          Call(MaxNameCalls) /\ CreateNamed(name, SingleKey(root, DEFAULT_NETWORK))
    \/ \E name \in WalletNames :
          /\ Call(MaxNameCalls)
          /\ CreateMultisigNamed(name, <<SingleKey(1, DEFAULT_NETWORK),
                                         SingleKey(2, DEFAULT_NETWORK)>>)
    \/ \E name \in WalletNames :
          Call(MaxNameCalls) /\ WalletCreateOrOpen(name, SingleKey(1, DEFAULT_NETWORK))
    \/ \E w \in WalletIds, value \in WalletNames :
          Call(MaxNameCalls) /\ SetName(w, value)

SpecNames == InitEmpty /\ [][NextNames]_vars

(***************************************************************************)
(* create_multisig over the values of sigs_required.                       *)
(***************************************************************************)
MaxSigsCalls == 2
MaxSigs == 3

SigsResult(r, arg) ==
    /\ Store(r.db)
    /\ last' = DidWith("create_multisig", r.wallet_id, r.err, <<>>, arg, 0)
    /\ UNCHANGED <<balances, given, held, sessions, threads>>

CreateMultisigSigs(name, key_list, sigs_required) ==
    SigsResult(create_multisig(DB, WalletName(name, Nil), key_list, sigs_required, "", 0,
                               MultisigPurpose, FALSE),
               [name |-> name, sigs_required |-> sigs_required, keys |-> Len(key_list)])

NextSigs ==
    \/ \E name \in Names, key_list \in MultisigKeyLists, sigs_required \in 0..MaxSigs :
          Call(MaxSigsCalls) /\ CreateMultisigSigs(name, key_list, sigs_required)
    \/ \E w \in MultisigWalletIds :
          Call(MaxSigsCalls) /\ NewKey(w, 0)

SpecSigs == InitEmpty /\ [][NextSigs]_vars

(***************************************************************************)
(* Addresses of one bip44 wallet: new_key, get_key and new_account, with   *)
(* transactions_update marking keys used.                                  *)
(***************************************************************************)
MaxAddressCalls == 4

InitAddress == DeleteStart(LedgerWallet)

KeyArgResult(op, w, r, arg) ==
    /\ Store(r.db)
    /\ last' = DidWith(op, w, r.err, IF r.err THEN <<>> ELSE <<r.key_id>>, arg, 0)
    /\ UNCHANGED <<balances, given, held, sessions, threads>>

NewKeyOf(w, change) ==
    KeyArgResult("new_key", w, new_key(DB, Self(DB, w), Nil, "", change, AddressDepth),
                 [change |-> change])

KeyListArgResult(op, w, r, arg) ==
    /\ Store(r.db)
    /\ last' = DidWith(op, w, r.err, IF r.err THEN <<>> ELSE r.key_list, arg, 0)
    /\ UNCHANGED <<balances, given, held, sessions, threads>>

GetKeyOf(w, change, number_of_keys) ==
    KeyListArgResult("get_key", w,
                     get_key(DB, Self(DB, w), Nil, "", number_of_keys, change, AddressDepth),
                     [change |-> change, number_of_keys |-> number_of_keys])

NewAccountOf(w, account_id, network) ==
    KeyArgResult("new_account", w, new_account(DB, Self(DB, w), account_id, network),
                 [account_id |-> account_id, network |-> network])

\* a transaction from an address of the wallet to the address of one of its
\* account keys or to somebody else
AddressTxLists ==
    {<<[hash |-> "H7", confirmations |-> 1,
        inputs |-> <<[address |-> k.address, input_n |-> 0, value |-> 500,
                      prev_hash |-> "H0"]>>,
        outputs |-> <<[address |-> a, output_n |-> 0, value |-> 400, spent |-> "true"]>>]>> :
     k \in {r \in keys : r.depth = AddressDepth},
     a \in {Dest} \cup {r.address : r \in {x \in keys : x.depth = AccountDepth}}}

NextAddress ==
    \/ \E w \in WalletIds, change \in {0, 1} :
          Call(MaxAddressCalls) /\ NewKeyOf(w, change)
    \/ \E w \in WalletIds, n \in 1..2 :
          Call(MaxAddressCalls) /\ GetKeyOf(w, 0, n)
    \/ \E w \in WalletIds, a \in {<<0, "">>, <<1, "">>, <<Nil, "litecoin">>} :
          Call(MaxAddressCalls) /\ NewAccountOf(w, a[1], a[2])
    \/ \E w \in WalletIds, list \in AddressTxLists :
          Call(MaxAddressCalls) /\ TransactionsUpdate(w, "", Answer(list))
    \/ \E w \in WalletIds, path \in AddressPaths :
          Call(MaxAddressCalls) /\ KeyForPath(w, path)

SpecAddress == InitAddress /\ [][NextAddress]_vars

(***************************************************************************)
(* new_key and get_key on a multisig wallet and on its cosigner wallets.   *)
(***************************************************************************)
MaxCosignerCalls == 3

InitCosigner == DeleteStart(DeleteWallet)

NextCosigner ==
    \/ \E w \in WalletIds, change \in {0, 1} :
          Call(MaxCosignerCalls) /\ NewKeyOf(w, change)
    \/ \E w \in WalletIds :
          Call(MaxCosignerCalls) /\ GetKeyOf(w, 0, 1)

SpecCosigner == InitCosigner /\ [][NextCosigner]_vars

(***************************************************************************)
(* key_add_private on a bip44 wallet created on an account public key.    *)
(***************************************************************************)
MaxPrivateCalls == 3

PrivateWallet ==
    create(EmptyDB, WalletName("a", Nil), AccountPublicKey(1, DefaultPurpose, DEFAULT_NETWORK),
           "", 0, DefaultPurpose, "bip44", 0, FALSE)

InitPrivate == DeleteStart(PrivateWallet)

\* the private key of seed `root` at the derivation steps of a key row
PrivateKeyAt(row, root) == HDKey(root, row.wif.segs, TRUE, row.key_type, row.network_name)

KeyAddPrivate(w, wallet_key, private_key) ==
    KeyArgResult("key_add_private", w, key_add_private(DB, Self(DB, w), wallet_key, private_key),
                 [wallet_key |-> wallet_key, private_key |-> private_key])

NextPrivate ==
    \/ \E w \in WalletIds, change \in {0, 1} :
          Call(MaxPrivateCalls) /\ NewKeyOf(w, change)
    \/ \E w \in WalletIds, row \in keys, root \in Roots :
          Call(MaxPrivateCalls) /\ KeyAddPrivate(w, row.id, PrivateKeyAt(row, root))

SpecPrivate == InitPrivate /\ [][NextPrivate]_vars

(***************************************************************************)
(* import_key and HDWalletKey.from_key on a bip44 wallet created on a      *)
(* master private key, with keys that are and are not in the wallet.       *)
(***************************************************************************)
MaxImportCalls == 3

InitImport == DeleteStart(LedgerWallet)

PurposeSteps == <<[i |-> DefaultPurpose, h |-> TRUE]>>

\* master and purpose-level keys, private and public, of the two seeds
ImportedKeys ==
    {HDKey(root, segs, priv, "bip32", DEFAULT_NETWORK) :
        root \in Roots, segs \in {<<>>, PurposeSteps}, priv \in BOOLEAN}

ImportKeyOf(w, key, key_type) ==
    KeyArgResult("import_key", w, import_key(DB, Self(DB, w), key, 0, DefaultPurpose, key_type),
                 [key |-> key, key_type |-> key_type])

FromKeyOf(w, key, path) ==
    KeyArgResult("from_key", w,
                 from_key(DB, w, key, 0, DEFAULT_NETWORK, 0, DefaultPurpose, 0, path, "bip32"),
                 [key |-> key, key_type |-> "bip32"])

NextImport ==
    \/ \E w \in WalletIds, key \in ImportedKeys, key_type \in {"", "bip32"} :
          Call(MaxImportCalls) /\ ImportKeyOf(w, key, key_type)
    \/ \E w \in WalletIds, key \in ImportedKeys, path \in {<<LvM>>, <<LvM, LvHard(DefaultPurpose)>>} :
          Call(MaxImportCalls) /\ FromKeyOf(w, key, path)

SpecImport == InitImport /\ [][NextImport]_vars

(***************************************************************************)
(* utxos_update against the stored outputs: the funded wallet, provider    *)
(* lists that hold and that miss stored outputs, and transactions_update   *)
(* between the calls.                                                      *)
(***************************************************************************)
MaxUtxoCalls == 3

\* utxos_update(network=network) with the provider's list kept in last.arg
UtxosUpdateOf(w, network, list, pick) ==
    /\ \A i \in 1..Len(list) :
          list[i].address \in addresslist(DB, Self(DB, w),
                                          get_account_defaults(DB, Self(DB, w), network, Nil),
                                          Nil, SchemeDepth(Self(DB, w)))
    /\ LedgerResult("utxos_update", w,
                    utxos_update(DB, Cached(w), Self(DB, w), Nil, network, Nil, Answer(list),
                                 pick),
                    [network |-> network, list |-> list])

\* the address of the third bitcoin address key, which the funded wallet
\* does not hold before a new_key
LaterAddress ==
    P2pkhAddress(PublicHex(HDKey(1, <<[i |-> DefaultPurpose, h |-> TRUE], [i |-> 0, h |-> TRUE],
                                      [i |-> 0, h |-> TRUE], [i |-> 0, h |-> FALSE],
                                      [i |-> 2, h |-> FALSE]>>,
                                 TRUE, "bip32", DEFAULT_NETWORK)))

\* a transaction that pays from the first bitcoin address to LaterAddress,
\* and its output as the provider of utxos_update lists it
PaymentLater ==
    [hash |-> "H8", confirmations |-> 1,
     inputs |-> <<[address |-> UtxoA.address, input_n |-> 0, value |-> 1000,
                   prev_hash |-> "H1"]>>,
     outputs |-> <<[address |-> LaterAddress, output_n |-> 0, value |-> 900,
                    spent |-> "false"]>>]
UtxoLater ==
    [tx_hash |-> "H8", output_n |-> 0, value |-> 900, confirmations |-> 1,
     address |-> LaterAddress]

NextUtxos ==
    \/ \E w \in WalletIds, network \in {"", "litecoin"},
          list \in UtxoLists \cup {<<UtxoLater>>}, pick \in {"first", "last"} :
          Call(MaxUtxoCalls) /\ UtxosUpdateOf(w, network, list, pick)
    \/ \E w \in WalletIds, network \in {"", "litecoin"},
          list \in TxLists \cup {<<PaymentLater>>} :
          Call(MaxUtxoCalls) /\ TransactionsUpdate(w, network, Answer(list))
    \/ \E w \in WalletIds :
          Call(MaxUtxoCalls) /\ NewKeyOf(w, 0)

SpecUtxos == InitLedger /\ [][NextUtxos]_vars

(***************************************************************************)
(* normalize_path on paths of a few levels, applied to a path and then to  *)
(* its own result.                                                         *)
(***************************************************************************)
MaxPathLen == 3
MaxNormalizeCalls == 2

\* levels as text and last character: plain, hardened in several spellings,
\* with a marker inside the text, a lone marker, and the empty level
PathLevels ==
    {LvM, LvInt(0), LvHard(0), Lv("0", "h"), Lv("44", "P"), Lv("0'", "H"), Lv("0h", "'"),
     Lv("", "p"), Lv("", "")}

PathInputs == UNION {[1..n -> PathLevels] : n \in 1..MaxPathLen}

InitPath ==
    /\ wallets = {} /\ keys = {} /\ links = {}
    /\ txs = {} /\ outs = {} /\ ins = {}
    /\ balances = <<>>
    /\ \E p \in PathInputs : last = [NoLast EXCEPT !.path = p, !.arg = [path |-> p, first |-> p]]
    /\ given = <<>>
    /\ held = NoTransaction
    /\ sessions = 0
    /\ threads = <<>>
    /\ calls = 0

Normalized(r, path, first) ==
    /\ last' = [Did("normalize_path", 0, r.err, <<>>, r.path)
                   EXCEPT !.arg = [path |-> path, first |-> first]]
    /\ UNCHANGED <<wallets, keys, links, txs, outs, ins, balances, given, held, sessions, threads>>

\* normalize_path of the path the caller holds: the input, then the result
NormalizePath ==
    /\ ~last.raised
    /\ Normalized(normalize_path(last.path), last.path, last.arg.first)

NextPath == Call(MaxNormalizeCalls) /\ NormalizePath

SpecPath == InitPath /\ [][NextPath]_vars

(***************************************************************************)
(* _select_inputs on stores of a few outputs, spent and unspent, for a     *)
(* few amounts and values of max_utxos.                                    *)
(***************************************************************************)
MaxUtxos == 3
MaxSelectCalls == 1

UtxoValues == {100, 200, 300}
SelectAmounts == {150, 300, 450, 700}

\* output rows 1..n with the given values and spent flags
SelectRows(value, spent) ==
    {[id |-> i, transaction_id |-> i, output_n |-> 0, value |-> value[i], key_id |-> 1,
      spent |-> spent[i]] : i \in DOMAIN value}

InitSelect ==
    /\ wallets = {} /\ keys = {} /\ links = {}
    /\ txs = {} /\ ins = {}
    /\ \E n \in 0..MaxUtxos : \E value \in [1..n -> UtxoValues], spent \in [1..n -> {"false", "true"}] :
          outs = SelectRows(value, spent)
    /\ balances = <<>>
    /\ last = NoLast
    /\ given = <<>>
    /\ held = NoTransaction
    /\ sessions = 0
    /\ threads = <<>>
    /\ calls = 0

\* the rows of the query _select_inputs is given: spent IS False
Unspent == {o \in outs : o.spent = "false"}

SelectInputs(amount, max_utxos) ==
    /\ last' = DidWith("_select_inputs", 0, FALSE, select_inputs(amount, Unspent, max_utxos),
                       [amount |-> amount, max_utxos |-> max_utxos], 0)
    /\ UNCHANGED <<wallets, keys, links, txs, outs, ins, balances, given, held, sessions, threads>>

NextSelect ==
    \E amount \in SelectAmounts, max_utxos \in {Nil} \cup (0..MaxUtxos) :
       Call(MaxSelectCalls) /\ SelectInputs(amount, max_utxos)

SpecSelect == InitSelect /\ [][NextSelect]_vars

(***************************************************************************)
(* Two sessions that run new_key on the same bip44 wallet, step by step:   *)
(* the query for the last address index, the search for the closest        *)
(* ancestor, and for each level to create the lookups of from_key and its  *)
(* insert with commit. The steps of the two sessions interleave freely.    *)
(***************************************************************************)
MaxSessionCalls == 3

Sessions == {1, 2}

Idle == [pc |-> "idle", change |-> 0, index |-> 0, hd |-> HDKey(0, <<>>, FALSE, "", ""),
         parent_id |-> 0, basepath |-> <<>>, path |-> <<>>, l |-> 0, ret |-> 0,
         rejected |-> FALSE]

InitConcurrent ==
    /\ wallets = LedgerWallet.db.wallets
    /\ keys = LedgerWallet.db.keys
    /\ links = {} /\ txs = {} /\ outs = {} /\ ins = {}
    /\ balances = <<>>
    /\ last = NoLast
    /\ given = <<>>
    /\ held = NoTransaction
    /\ sessions = 0
    /\ threads = [t \in Sessions |-> Idle]
    /\ calls = 0

\* the wallet the sessions work on, its defaults and its account key
TheWallet == Self(DB, NextId({}))
TheAccount == get_account_defaults(DB, TheWallet, "", Nil)

Step(t, th) ==
    /\ threads' = [threads EXCEPT ![t] = th]
    /\ UNCHANGED <<wallets, links, txs, outs, ins, balances, last, given, held, sessions>>

\* new_key(change=change) is called in session t
Begin(t, change) ==
    /\ threads[t].pc \in {"idle", "done", "failed"}
    /\ TheAccount.acckey # 0
    /\ Step(t, [Idle EXCEPT !.pc = "index", !.change = change])
    /\ UNCHANGED keys

\* the query for prevkey and the new address index
ReadIndex(t) ==
    /\ threads[t].pc = "index"
    /\ Step(t, [threads[t] EXCEPT
                   !.pc = "ancestor",
                   !.index = NewAddressIndex(DB, TheWallet, TheAccount, threads[t].change,
                                             AddressDepth)])
    /\ UNCHANGED keys

\* _create_keys_from_path up to its loop: the closest ancestor in the store
AncestorFound(t, st) ==
    IF st.err THEN Step(t, [threads[t] EXCEPT !.pc = "failed"])
    ELSE Step(t, [threads[t] EXCEPT !.pc = IF st.path = <<>> THEN "done" ELSE "check",
                                    !.hd = st.hd, !.parent_id = st.key_id, !.ret = st.key_id,
                                    !.basepath = st.basepath, !.path = st.path, !.l = 1])

FindAncestorFrom(t, acc, path) ==
    AncestorFound(t, PathStart(DB, TheWallet, HDWalletKeyOf(acc), path, acc.path,
                               ClosestAncestor(DB, TheWallet.wallet_id, acc.path \o path)))

FindAncestor(t) ==
    /\ threads[t].pc = "ancestor"
    /\ FindAncestorFrom(t, KeyRow(DB, TheAccount.acckey),
                        <<LvInt(threads[t].change), LvInt(threads[t].index)>>)
    /\ UNCHANGED keys

\* the key of level l and the path it is stored under
LevelKey(th) == subkey_for_path(th.hd, th.path[th.l], TheAccount.network)
LevelPath(th) == th.basepath \o SubSeq(th.path, 1, th.l)

\* the round of the loop is over with key row id
Descend(th, id) ==
    [th EXCEPT !.pc = IF th.l = Len(th.path) THEN "done" ELSE "check",
               !.hd = LevelKey(th).key, !.parent_id = id, !.ret = id, !.l = th.l + 1]

\* from_key before its insert: the row with this wif, the depth of the key
\* against the path, the row with these public bytes or this wif
FromKeyLookup(db, wallet_id, k, path, key_type) ==
    LET keyexists == {r \in db.keys : r.wallet_id = wallet_id /\ r.wif = WifOf(k)}
        wk == {r \in db.keys : r.wallet_id = wallet_id
                                /\ (r.public = PublicHex(k) \/ r.wif = WifOf(k))}
    IN  IF keyexists # {} THEN [kind |-> "found", id |-> First(keyexists).id]
        ELSE IF key_type # "single" /\ Depth(k) # Len(path) - 1
                /\ ~(path = <<LvM>> /\ Depth(k) = AccountDepth)
        THEN [kind |-> "raise", id |-> 0]
        ELSE IF wk # {} THEN [kind |-> "found", id |-> First(wk).id]
        ELSE [kind |-> "new", id |-> 0]

LookedUp(t, th, r) ==
    IF r.kind = "raise" THEN Step(t, [th EXCEPT !.pc = "failed"])
    ELSE IF r.kind = "found" THEN Step(t, Descend(th, r.id))
    ELSE Step(t, [th EXCEPT !.pc = "insert"])

CheckExists(t) ==
    /\ threads[t].pc = "check"
    /\ IF LevelKey(threads[t]).err THEN Step(t, [threads[t] EXCEPT !.pc = "failed"])
       ELSE LookedUp(t, threads[t],
                     FromKeyLookup(DB, TheWallet.wallet_id, LevelKey(threads[t]).key,
                                   LevelPath(threads[t]), ""))
    /\ UNCHANGED keys

\* session.add(nk) and session.commit(): the store takes the row or rejects it
Inserted(t, th, nk) ==
    IF KeyAccepted(DB, nk)
    THEN /\ keys' = keys \cup {nk}
         /\ Step(t, Descend(th, nk.id))
    ELSE /\ keys' = keys
         /\ Step(t, [th EXCEPT !.pc = "failed", !.rejected = TRUE])

Insert(t) ==
    /\ threads[t].pc = "insert"
    /\ Inserted(t, threads[t],
                NewKeyRow(DB, TheWallet.wallet_id, LevelKey(threads[t]).key,
                          TheAccount.account_id, TheAccount.network, threads[t].change,
                          TheWallet.purpose, threads[t].parent_id, LevelPath(threads[t]), ""))

NextConcurrent ==
    \/ \E t \in Sessions, change \in {0, 1} : Call(MaxSessionCalls) /\ Begin(t, change)
    \/ \E t \in Sessions : ReadIndex(t) /\ UNCHANGED calls
    \/ \E t \in Sessions : FindAncestor(t) /\ UNCHANGED calls
    \/ \E t \in Sessions : CheckExists(t) /\ UNCHANGED calls
    \/ \E t \in Sessions : Insert(t) /\ UNCHANGED calls

SpecConcurrent == InitConcurrent /\ [][NextConcurrent]_vars

Materialized(rows, w, path) ==
    {r \in rows : r.wallet_id = w /\ r.path = normalize_path(path).path}

\* C7: materializing an absolute path the wallet already holds, through
\* _create_keys_from_path with the same parent, basepath and relative path or
\* through key_for_path with any spelling of the hardened marker, returns the
\* key with the row id of the first materialization and inserts no key row.
C7_Rematerialize ==
    [][(/\ calls' = calls + 1
        /\ last'.op \in {"key_for_path", "_create_keys_from_path"}
        /\ Materialized(keys, last'.w, last'.path) # {})
       => (/\ ~last'.raised
           /\ keys' = keys
           /\ \E r \in Materialized(keys, last'.w, last'.path) : last'.ret = <<r.id>>)]_vars

(***************************************************************************)
(* Claims on multisig keys.                                                *)
(***************************************************************************)
MultisigKeys(w) == {r \in keys : r.wallet_id = w /\ r.key_type = "multisig"}
ChildLinks(m) == {l \in links : l.parent_id = m.id}
Cosigners(w) == {r \in wallets : r.parent_id = w}

\* C8: for every multisig key row that new_key created on a multisig wallet,
\* the number of its child links equals the number of cosigner wallets, their
\* key_order values are exactly 0..n-1 without repetition, and the i-th public
\* key of the stored redeem script is the public key of the child linked with
\* key_order = i.
C8_LinksMatchScript ==
    \A m \in keys : m.key_type = "multisig" =>
        /\ Cardinality(ChildLinks(m)) = Cardinality(Cosigners(m.wallet_id))
        /\ {l.key_order : l \in ChildLinks(m)} = 0..(Cardinality(Cosigners(m.wallet_id)) - 1)
        /\ Len(m.public.keys) = Cardinality(Cosigners(m.wallet_id))
        /\ \A l \in ChildLinks(m) :
              /\ HasKey(DB, l.child_id)
              /\ m.public.keys[l.key_order + 1] = KeyRow(DB, l.child_id).public

\* a sorted multisig wallet whose second key has its cosigner keys in another
\* order than the cosigner wallets
C8_Witness ==
    \E m \in keys, a \in links, b \in links :
        /\ m.key_type = "multisig"
        /\ Cardinality(MultisigKeys(m.wallet_id)) >= 2
        /\ a.parent_id = m.id /\ b.parent_id = m.id
        /\ a.key_order < b.key_order
        /\ KeyRow(DB, a.child_id).wallet_id > KeyRow(DB, b.child_id).wallet_id

\* the k-th multisig key of wallet w, in the order new_key returned them
KthKey(w, k) ==
    CHOOSE m \in MultisigKeys(w) : Cardinality({x \in MultisigKeys(w) : x.id < m.id}) = k - 1

\* C9: with sort_keys = true and the same cosigner keys and sigs_required,
\* the redeem script and the address of the k-th key new_key returns are the
\* same for every permutation of key_list.
C9_PermutationInvariant ==
    \A w1 \in wallets, w2 \in wallets :
        (/\ w1.id \in DOMAIN given /\ w2.id \in DOMAIN given
         /\ w1.sort_keys /\ w2.sort_keys
         /\ Range(given[w1.id]) = Range(given[w2.id])
         /\ w1.multisig_n_required = w2.multisig_n_required)
        => \A k \in 1..Min({Cardinality(MultisigKeys(w1.id)), Cardinality(MultisigKeys(w2.id))}) :
              /\ KthKey(w1.id, k).public = KthKey(w2.id, k).public
              /\ KthKey(w1.id, k).address = KthKey(w2.id, k).address

\* two sorted wallets over the two orders of one key list, each with two keys
C9_Witness ==
    \E w1 \in wallets, w2 \in wallets :
        /\ w1.id \in DOMAIN given /\ w2.id \in DOMAIN given
        /\ w1.sort_keys /\ w2.sort_keys
        /\ given[w1.id] # given[w2.id]
        /\ Range(given[w1.id]) = Range(given[w2.id])
        /\ w1.multisig_n_required = w2.multisig_n_required
        /\ Cardinality(MultisigKeys(w1.id)) >= 2
        /\ Cardinality(MultisigKeys(w2.id)) >= 2

(***************************************************************************)
(* Claims on the ledger and the composer.                                  *)
(***************************************************************************)
\* C2: in every sequence of utxos_update, transactions_update,
\* transaction_send and balance_update calls, an output row that has
\* spent = true never has spent = false afterwards, also when a later
\* utxos_update gets a provider list that still holds the output.
C2_SpentMonotone ==
    [][\A o \in outs : o.spent = "true" =>
          \A p \in outs' : p.id = o.id => p.spent = "true"]_vars

\* C3: every transaction that transaction_create returns, with the fee given
\* as a number or estimated, has the sum of its input values equal to the sum
\* of its output amounts (the change output included) plus its fee, also
\* when a small positive change is dropped.
C3_InputsCoverOutputs ==
    (last.op = "transaction_create" /\ ~last.raised)
    => SumInputs(held.inputs) = SumAmounts(held.outputs) + held.fee

Referenced(transaction, rows, o) ==
    \E i \in 1..Len(transaction.inputs), t \in rows :
        /\ t.id = o.transaction_id
        /\ t.hash = transaction.inputs[i].prev_hash
        /\ o.output_n = transaction.inputs[i].output_n

\* C4: transaction_send marks the outputs its inputs refer to as spent only
\* after sendrawtransaction answered with success. When the transaction does
\* not verify, when offline is true, and when the provider fails, the provider
\* was called 0, 0 and 1 times, no spent value changes, and the result carries
\* the transaction, with an error entry in the two failure cases.
C4_SendMarksAfterSuccess ==
    [][(calls' = calls + 1 /\ last'.op = "transaction_send") =>
          /\ ~last'.raised
          /\ ~Verify(held) =>
                /\ last'.provider = 0
                /\ outs' = outs
                /\ last'.ret[1].error /\ last'.ret[1].transaction = held
          /\ (Verify(held) /\ last'.arg.offline) =>
                /\ last'.provider = 0
                /\ outs' = outs
                /\ ~last'.ret[1].error /\ last'.ret[1].transaction = held
          /\ (Verify(held) /\ ~last'.arg.offline /\ ~last'.arg.ok) =>
                /\ last'.provider = 1
                /\ outs' = outs
                /\ last'.ret[1].error /\ last'.ret[1].transaction = held
          /\ (Verify(held) /\ ~last'.arg.offline /\ last'.arg.ok) =>
                /\ last'.provider = 1
                /\ \A o \in outs' : Referenced(held, txs, o) => o.spent = "true"
          /\ outs' # outs => (Verify(held) /\ ~last'.arg.offline /\ last'.arg.ok)]_vars

\* a signed transaction was sent, the provider took it, and the output it
\* spends is marked
C4_Witness ==
    /\ last.op = "transaction_send"
    /\ last.provider = 1
    /\ last.arg.ok
    /\ Verify(held)
    /\ \E o \in outs : Referenced(held, txs, o) /\ o.spent = "true"

StoredBalance(w, n) ==
    IF w \in DOMAIN balances /\ n \in DOMAIN balances[w].balances
    THEN balances[w].balances[n] ELSE 0

WalletUnspent(w, min_confirms) ==
    {o \in UnspentOf(DB, w, min_confirms) : KeyRow(DB, o.key_id).wallet_id = w}

\* C5: after balance_update without account or key filter, the balance the
\* wallet holds for each network is the sum of the values of the unspent
\* outputs, confirmed min_confirms times, of the wallet's keys of that network,
\* for any number of keys and of unspent outputs per key.
C5_NetworkBalances ==
    (last.op = "balance_update" /\ ~last.raised)
    => \A n \in Networks :
          StoredBalance(last.w, n) =
              SumValue({o \in WalletUnspent(last.w, last.arg.min_confirms) :
                           KeyRow(DB, o.key_id).network_name = n})

\* C6: after balance_update(min_confirms=0) without filters, the balances of
\* the key rows of the wallet add up to the values of its unspent outputs, and
\* every key without an unspent output has balance 0, used keys and keys of
\* another network than the wallet's included.
C6_KeyBalances ==
    (last.op = "balance_update" /\ ~last.raised /\ last.arg.min_confirms = 0)
    => /\ SumBalance({k \in keys : k.wallet_id = last.w}) = SumValue(WalletUnspent(last.w, 0))
       /\ \A k \in keys :
             (k.wallet_id = last.w /\ ~\E o \in WalletUnspent(last.w, 0) : o.key_id = k.id)
             => k.balance = 0

(***************************************************************************)
(* Claims on wallet_delete.                                                *)
(***************************************************************************)
\* C10: wallet_delete(force=False) on a wallet that has a key with nonzero
\* balance raises, and afterwards the wallet row, its key rows, every key_id
\* reference in transaction inputs and outputs and every multisig child link
\* are as before the call.
C10_DeleteRefused ==
    [][(/\ calls' = calls + 1
        /\ last'.op = "wallet_delete"
        /\ ~last'.arg.force
        /\ \E k \in keys : k.wallet_id = last'.w /\ k.balance # 0)
       => (/\ last'.raised
           /\ wallets' = wallets
           /\ keys' = keys
           /\ ins' = ins
           /\ outs' = outs
           /\ links' = links)]_vars

\* the refused wallet has a key with a balance, child links, and an input and
\* an output that refer to it
C10_Witness ==
    /\ last.op = "wallet_delete"
    /\ last.raised
    /\ ~last.arg.force
    /\ \E k \in keys :
          /\ k.wallet_id = last.w
          /\ k.balance # 0
          /\ \E l \in links : l.parent_id = k.id
          /\ \E o \in outs : o.key_id = k.id
          /\ \E i \in ins : i.key_id = k.id

\* C11: after wallet_delete(w) returned, no key row has wallet_id = w, no
\* wallet row has parent_id = w, the cosigner wallets' keys are gone too, no
\* multisig child link refers to a deleted key, and every transaction input
\* and output that referred to a deleted key is kept with key_id null.
C11_DeleteCascades ==
    [][(/\ calls' = calls + 1
        /\ last'.op = "wallet_delete"
        /\ ~last'.raised)
       => LET gone == {k.id : k \in keys} \ {k.id : k \in keys'}
          IN  /\ \A w \in wallets' : w.id # last'.w /\ w.parent_id # last'.w
              /\ \A k \in keys' :
                    /\ k.wallet_id # last'.w
                    /\ \A w \in wallets : w.parent_id = last'.w => k.wallet_id # w.id
              /\ \A l \in links' : l.parent_id \notin gone /\ l.child_id \notin gone
              /\ outs' = {IF o.key_id \in gone THEN [o EXCEPT !.key_id = Nil] ELSE o : o \in outs}
              /\ ins' = {IF i.key_id \in gone THEN [i EXCEPT !.key_id = Nil] ELSE i : i \in ins}]_vars

\* the multisig wallet, which had an output and an input on its key, was
\* deleted together with its two cosigner wallets in one call
C11_Witness ==
    /\ last.op = "wallet_delete"
    /\ ~last.raised
    /\ calls <= 3
    /\ wallets = {}
    /\ keys = {}
    /\ links = {}
    /\ \E o \in outs, t \in txs : t.id = o.transaction_id /\ t.hash = "H1" /\ o.key_id = Nil
    /\ \E i \in ins : i.key_id = Nil

C13_SigsRequiredRange ==
    [][(/\ calls' = calls + 1
        /\ last'.op = "create_multisig"
        /\ \A w \in wallets : w.name.base # last'.arg.name)
       => IF last'.arg.sigs_required \in 2..last'.arg.keys
          THEN /\ ~last'.raised
               /\ \E w \in wallets' : /\ w.id = last'.w
                                      /\ w.multisig_n_required = last'.arg.sigs_required
          ELSE last'.raised /\ wallets' = wallets]_vars

(***************************************************************************)
(* Claims on addresses and accounts.                                       *)
(***************************************************************************)
\* the unused address keys of (wallet w, account 0, default network, change c)
\* with an id greater than that of the last used one
UnusedAfterLastUsed(w, c) ==
    LET scope == {k \in keys : /\ k.wallet_id = w
                               /\ k.depth = AddressDepth
                               /\ k.change = c
                               /\ k.account_id = 0
                               /\ k.network_name = DEFAULT_NETWORK}
    IN  {k.id : k \in {x \in scope : /\ ~x.used
                                     /\ \A u \in scope : u.used => u.id < x.id}}

\* C14: get_key(change=c) on a bip44 wallet returns the unused depth-5 key of
\* (account, network, c) with the smallest id among those after the last used
\* one, and inserts no key; only when there is none it derives a new key.
C14_OldestUnused ==
    [][(/\ calls' = calls + 1
        /\ last'.op = "get_key"
        /\ last'.arg.number_of_keys = 1)
       => IF UnusedAfterLastUsed(last'.w, last'.arg.change) # {}
          THEN /\ ~last'.raised
               /\ last'.ret = <<Min(UnusedAfterLastUsed(last'.w, last'.arg.change))>>
               /\ keys' = keys
          ELSE last'.raised \/ \E k \in keys' : k.id \notin {x.id : x \in keys}
                                                /\ last'.ret = <<k.id>>]_vars

\* the depth-5 keys of (wallet w, account 0, default network, change c)
AddressKeys(rows, w, c) ==
    {k \in rows : /\ k.wallet_id = w
                  /\ k.depth = AddressDepth
                  /\ k.change = c
                  /\ k.account_id = 0
                  /\ k.network_name = DEFAULT_NETWORK}

C16_ChildrenAligned ==
    \A l1, l2 \in links :
        l1.parent_id = l2.parent_id
        => \A k1, k2 \in keys :
              (k1.id = l1.child_id /\ k2.id = l2.child_id)
              => (k1.change = k2.change /\ k1.address_index = k2.address_index)

C18_SamePublicBytes ==
    [][(calls' = calls + 1 /\ last'.op = "key_add_private")
       => \A r \in keys : r.id = last'.arg.wallet_key
             => \E n \in keys' :
                   /\ n.id = r.id /\ n.path = r.path /\ n.depth = r.depth
                   /\ n.public = r.public /\ n.address = r.address
                   /\ IF PublicHex(last'.arg.private_key) = r.public
                      THEN last'.raised \/ (n.is_private /\ n.wif = WifOf(last'.arg.private_key))
                      ELSE last'.raised /\ n = r]_vars

\* the key rows of wallet w with the wif or the public bytes of key k
RowsOfKey(rows, w, k) ==
    {r \in rows : r.wallet_id = w /\ (r.wif = WifOf(k) \/ r.public = PublicHex(k))}

\* C19: from_key and import_key of a key whose wif or whose public bytes are
\* in a key row of the wallet return the id of that row and insert no row;
\* the key rows, the existing one included, are unchanged.
C19_ExistingKeyReturned ==
    [][(/\ calls' = calls + 1
        /\ last'.op \in {"from_key", "import_key"}
        /\ RowsOfKey(keys, last'.w, last'.arg.key) # {})
       => /\ ~last'.raised
          /\ \E r \in RowsOfKey(keys, last'.w, last'.arg.key) : last'.ret = <<r.id>>
          /\ keys' = keys]_vars

\* the outputs of wallet w on keys of account d that are unspent
InScope(w, d) ==
    {o \in outs : /\ o.spent = "false"
                  /\ \E t \in txs : t.id = o.transaction_id /\ t.wallet_id = w
                  /\ \E k \in keys : /\ k.id = o.key_id
                                     /\ k.account_id = d.account_id
                                     /\ k.network_name = d.network}

Reconciled(w, d, list) ==
    /\ \A o \in InScope(w, d) :
          (\A i \in DOMAIN list : ~(/\ list[i].output_n = o.output_n
                                    /\ \E t \in txs : /\ t.id = o.transaction_id
                                                      /\ t.hash = list[i].tx_hash))
          => \E p \in outs' : p.id = o.id /\ p.spent = "true"
    /\ \A i \in DOMAIN list :
          \E p \in outs', t \in txs', k \in keys' :
             /\ t.id = p.transaction_id /\ t.wallet_id = w /\ t.hash = list[i].tx_hash
             /\ p.output_n = list[i].output_n
             /\ p.key_id = k.id /\ k.wallet_id = w /\ k.address = list[i].address
             /\ k.used

\* C20: when utxos_update(network) completes, every stored output of that
\* account and network that was unspent before and that the provider list does
\* not hold has spent = true, and every (tx_hash, output_n) of the provider
\* list is an output row bound to the key of its address, and that key is used.
C20_UtxosReconciled ==
    [][(calls' = calls + 1 /\ last'.op = "utxos_update" /\ ~last'.raised)
       => Reconciled(last'.w,
                     get_account_defaults(DB, Self(DB, last'.w), last'.arg.network, Nil),
                     last'.arg.list)]_vars

OutputsOfHash(hash) ==
    {o \in outs : \E t \in txs : t.id = o.transaction_id /\ t.hash = hash}

\* the second call was a utxos_update that found H1:0 gone and H2:0 listed
C20_Witness ==
    /\ calls = 2 /\ last.op = "utxos_update" /\ ~last.raised
    /\ \E o \in OutputsOfHash("H1") : o.spent = "true"
    /\ \E o \in OutputsOfHash("H2"), k \in keys :
          o.spent = "false" /\ k.id = o.key_id /\ k.used

\* C21: utxos_update returns the number of output rows it inserted during
\* the call; an output row that was in the store before, such as one that
\* transactions_update inserted with no key bound, is not counted.
C21_CountsInserted ==
    [][(calls' = calls + 1 /\ last'.op = "utxos_update" /\ ~last'.raised)
       => last'.ret = <<Cardinality({o \in outs' : \A p \in outs : p.id # o.id})>>]_vars


\* C22: a call of create or create_multisig that raises leaves the wallet
\* rows and the key rows as they were before the call.
C22_FailedCreateLeavesNothing ==
    [][(calls' = calls + 1 /\ last'.op \in {"create", "create_multisig"} /\ last'.raised)
       => (wallets' = wallets /\ keys' = keys)]_vars

\* C23: wallet_delete closes the store session it opened on every exit path
\* (normal return, wallet not found, refusal because of a key with a
\* balance): no session that wallet_delete opened is open after the call.
C23_SessionClosed == sessions = 0


\* C27: normalize_path is idempotent, normalize_path(normalize_path(p)) is
\* normalize_path(p) for every path p on which it does not raise, and it
\* raises for every path that has an empty segment.
C27_NormalizeIdempotent ==
    [][(calls' = calls + 1 /\ last'.op = "normalize_path")
       => /\ (\E l \in DOMAIN last'.arg.path : last'.arg.path[l] = Lv("", "")) => last'.raised
          /\ last.op = "normalize_path" => (~last'.raised /\ last'.path = last.path)]_vars

\* the second call returned what the first returned for a path that the
\* first call changed
C27_Witness ==
    /\ calls = 2 /\ last.op = "normalize_path" /\ ~last.raised
    /\ last.path = last.arg.path
    /\ last.path # last.arg.first


(***************************************************************************)
(* Claims on the selection of inputs.                                      *)
(***************************************************************************)
Sufficient(amount) == {o \in Unspent : o.value >= amount}

\* C28: when an unspent output of the query has value >= amount,
\* _select_inputs returns exactly one output, and its value is the least of
\* the values >= amount.
C28_SmallestSufficient ==
    (last.op = "_select_inputs" /\ Sufficient(last.arg.amount) # {})
    => /\ Len(last.ret) = 1
       /\ last.ret[1] \in Sufficient(last.arg.amount)
       /\ \A p \in Sufficient(last.arg.amount) : last.ret[1].value <= p.value

\* one output was returned although a larger one would do as well
C28_Witness ==
    /\ last.op = "_select_inputs" /\ Len(last.ret) = 1
    /\ \E p \in Sufficient(last.arg.amount) : p.value > last.ret[1].value

Capped(max_utxos, n) == max_utxos = Nil \/ n <= max_utxos

\* C29: when no unspent output has value >= amount, a non-empty result of
\* _select_inputs holds pairwise distinct unspent outputs whose values sum to
\* amount or more, at most max_utxos of them when max_utxos is set, and
\* without its last element the sum is below amount; the result is empty only
\* if no set of at most max_utxos unspent outputs reaches amount.
C29_CompositeSelection ==
    (last.op = "_select_inputs" /\ Sufficient(last.arg.amount) = {})
    => IF last.ret # <<>>
       THEN /\ \A i \in DOMAIN last.ret : last.ret[i] \in Unspent
            /\ \A i, j \in DOMAIN last.ret : i # j => last.ret[i].id # last.ret[j].id
            /\ SumInputs(last.ret) >= last.arg.amount
            /\ Capped(last.arg.max_utxos, Len(last.ret))
            /\ SumInputs(SubSeq(last.ret, 1, Len(last.ret) - 1)) < last.arg.amount
       ELSE \A S \in SUBSET Unspent :
               Capped(last.arg.max_utxos, Cardinality(S)) => SumValue(S) < last.arg.amount

\* two outputs were taken and a third lesser one was left
C29_Witness ==
    /\ last.op = "_select_inputs" /\ Sufficient(last.arg.amount) = {}
    /\ Len(last.ret) = 2
    /\ Cardinality(Unspent) = 3


\* the stored output rows an entry of input_arr refers to
StoredInput(w, inp) ==
    {o \in outs : /\ o.output_n = inp.output_n
                  /\ \E t \in txs : /\ t.id = o.transaction_id /\ t.wallet_id = w
                                    /\ t.hash = inp.prev_hash}
StoredValues(w, input_arr) ==
    SumNumbers([i \in 1..Len(input_arr) |->
                   IF StoredInput(w, input_arr[i]) = {} THEN 0
                   ELSE First(StoredInput(w, input_arr[i])).value])
ExpectedChange(w, c) ==
    StoredValues(w, c.input_arr)
    - (c.amount + (IF c.transaction_fee = Nil THEN 0 ELSE c.transaction_fee))

\* C30: transaction_create with given inputs that carry no key_id and no
\* value takes the values from the store; the change is the sum of the stored
\* values of all given inputs minus (outputs + fee), the call fails when that
\* is negative, and a positive change is one more output, to an address of a
\* change key.
C30_GivenInputsChange ==
    [][(/\ calls' = calls + 1 /\ last'.op = "transaction_create"
        /\ last'.arg.input_arr # <<>>
        /\ \A i \in DOMAIN last'.arg.input_arr :
              /\ Falsy(last'.arg.input_arr[i].key_id) /\ Falsy(last'.arg.input_arr[i].value)
              /\ StoredInput(last'.w, last'.arg.input_arr[i]) # {})
       => /\ ExpectedChange(last'.w, last'.arg) < 0 => last'.raised
          /\ ~last'.raised =>
                /\ held'.change = ExpectedChange(last'.w, last'.arg)
                /\ held'.change > 0 =>
                      /\ Len(held'.outputs) = 2
                      /\ held'.outputs[2].amount = held'.change
                      /\ \E k \in keys' : k.change = 1 /\ k.address = held'.outputs[2].address]_vars


\* C26: after any sequence of utxos_update and transactions_update calls,
\* also when the provider of transactions_update gives no spent flag of an
\* output, every stored output row has spent true or false, never null.
C26_SpentNeverNull == \A o \in outs : o.spent \in {"true", "false"}


\* C25: every key row whose key_type is neither single nor multisig has a
\* depth of one less than the number of levels of its path; so have derived
\* keys, imported master keys, and an account key given with path 'm', which
\* is stored under m/purpose'/cointype'/account'.
C25_DepthMatchesPath ==
    \A k \in keys : k.key_type \notin {"single", "multisig"} => k.depth = Len(k.path) - 1

\* a wallet was created on an account key and a second wallet holds an
\* imported master key beside its own
C25_Witness ==
    /\ \E k \in keys : k.depth = AccountDepth /\ k.parent_id = 0 /\ k.key_type = "bip32"
    /\ \E k, m \in keys : /\ k.wallet_id = m.wallet_id /\ k.id # m.id
                          /\ k.depth = 0 /\ m.depth = 0
                          /\ k.key_type = "bip32" /\ m.key_type # "multisig"


C31_EstimatedFee ==
    (/\ last.op = "transaction_create" /\ ~last.raised
     /\ last.arg.transaction_fee = Nil /\ last.arg.input_arr = <<>>)
    => held.fee = ((100 + 150 * Len(held.inputs) + 50 * (1 + 1)) * held.fee_per_kb) \div 1024

(***************************************************************************)
(* send and sweep on the funded wallet.                                    *)
(***************************************************************************)
MaxSendCalls == 2

\* send(to_address, amount, network=network, transaction_fee=transaction_fee)
SendArgs(amount, network, transaction_fee, est) ==
    [output_arr |-> <<[address |-> Dest, amount |-> amount]>>, input_arr |-> <<>>,
     account_id |-> Nil, network |-> network, transaction_fee |-> transaction_fee,
     min_confirms |-> 4, max_utxos |-> Nil, est |-> est]

SendCalls ==
    {SendArgs(300, "litecoin", Nil, 2048), SendArgs(200, "litecoin", Nil, 2048),
     SendArgs(300, "litecoin", 100, Nil), SendArgs(300, "", 100, Nil)}

\* what Transaction.estimate_fee can answer for the signed transaction: within
\* 10% of the estimate of 602, and more than 10% above it
ExactFees == {560, 700}

SendDid(op, w, r, arg) ==
    /\ Store(r.db)
    /\ last' = DidWith(op, w, r.err,
                       IF r.err THEN <<>>
                       ELSE <<[steps |-> r.steps, first |-> r.first,
                               submitted |-> r.submitted, ret |-> r.ret]>>,
                       arg, r.provider)
    /\ UNCHANGED <<balances, given, held, sessions, threads>>

Send(w, a, fee_exact, offline, res) ==
    SendDid("send", w, send(DB, Self(DB, w), a, fee_exact, offline, res),
            [transaction_fee |-> a.transaction_fee, network |-> a.network,
             fee_exact |-> fee_exact, offline |-> offline, ok |-> res.ok])

UtxoDust == Utxo(DB, "H5", 0, 200, 20, "bitcoin", 0)

\* sweep(to_address, network=network, max_utxos=max_utxos, min_confirms=min_confirms,
\* fee_per_kb=fee_per_kb)
SweepCall(network, max_utxos, min_confirms, fee_per_kb) ==
    [network |-> network, max_utxos |-> max_utxos, min_confirms |-> min_confirms,
     fee_per_kb |-> fee_per_kb]

SweepCalls ==
    {SweepCall("litecoin", 999, 1, 1024), SweepCall("litecoin", 999, 1, 4096),
     SweepCall("", 999, 1, 1024), SweepCall("", 2, 1, 1024), SweepCall("", 999, 0, 1024)}

\* arg keeps the call, the unspent outputs of the scope before the call, the
\* number of keys before it, and whether the store changed
SweepDone(w, c, order, r, offline, res) ==
    SendDid("sweep", w, r,
            [network |-> c.network, max_utxos |-> c.max_utxos, min_confirms |-> c.min_confirms,
             fee_per_kb |-> c.fee_per_kb, offline |-> offline, ok |-> res.ok,
             scope |-> {SweepEntry(DB, order[i]) : i \in DOMAIN order},
             nkeys |-> Cardinality(keys), changed |-> r.db # DB])

SweepOf(w, self, d, c, order, offline, res) ==
    SweepDone(w, c, order,
              sweep(DB, self, d, Dest, order, c.max_utxos, c.min_confirms, c.fee_per_kb, Nil,
                    offline, res),
              offline, res)

Sweep(w, c, offline, res) ==
    \E order \in ByConfirmations(DB, utxos(DB, Self(DB, w),
                                            get_account_defaults(DB, Self(DB, w), c.network, Nil),
                                            c.min_confirms, Nil)) :
        SweepOf(w, Self(DB, w), get_account_defaults(DB, Self(DB, w), c.network, Nil),
                c, order, offline, res)

NextSend ==
    \/ \E w \in WalletIds, a \in SendCalls, fee_exact \in ExactFees, offline \in BOOLEAN,
          res \in SendAnswers :
          Call(MaxSendCalls) /\ Send(w, a, fee_exact, offline, res)
    \/ \E w \in WalletIds, c \in SweepCalls, offline \in BOOLEAN, res \in SendAnswers :
          Call(MaxSendCalls) /\ Sweep(w, c, offline, res)
    \/ \E w \in WalletIds, list \in {<<UtxoA, UtxoB, UtxoB2>>, <<UtxoDust, UtxoA, UtxoB>>} :
          Call(MaxSendCalls) /\ UtxosUpdateOf(w, "", list, "first")

SpecSend == InitLedger /\ [][NextSend]_vars

\* C32: a send without a fee composes, signs, compares the estimated fee with
\* the exact fee, and submits the first transaction when the two differ by at
\* most 10% of the exact fee, otherwise a transaction composed again with the
\* exact fee and signed again, whether or not the first transaction has a
\* change output; the provider is called at most once, in the last step.
C32_SendOrder ==
    (last.op = "send" /\ ~last.raised /\ last.arg.transaction_fee = Nil)
    => /\ last.provider <= 1
       /\ IF FeeOff(last.ret[1].first.fee, last.arg.fee_exact)
          THEN /\ last.ret[1].steps
                     = <<"compose", "sign", "compare", "recompose", "re-sign", "submit">>
               /\ last.ret[1].submitted.fee = last.arg.fee_exact
          ELSE /\ last.ret[1].steps \in {<<"compose", "sign", "compare", "submit">>,
                                          <<"compose", "sign", "submit">>}
               /\ last.ret[1].submitted = last.ret[1].first

\* the inputs of a transaction as (hash, output_n, key_id, value)
InputsOf(t) ==
    {InputEntry(t.inputs[i].prev_hash, t.inputs[i].output_n, t.inputs[i].key_id,
                t.inputs[i].value) : i \in DOMAIN t.inputs}

\* the unspent outputs of the scope at or above the dust threshold
NotDust(a) == {e \in a.scope : e.value >= dust_ignore_amount(a.network)}

\* C33: a sweep that reaches the provider submits one transaction whose inputs
\* are the unspent outputs of the scope at or above the dust threshold, limited
\* to max_utxos, with the single output to_address of their sum less the fee
\* floor((125 + 125 * n_inputs) * fee_per_kb / 1024), no change and no new key.
C33_SweepInputs ==
    (last.op = "sweep" /\ ~last.raised /\ last.provider = 1)
    => /\ Cardinality(InputsOf(last.ret[1].submitted)) = Len(last.ret[1].submitted.inputs)
       /\ InputsOf(last.ret[1].submitted) \subseteq NotDust(last.arg)
       /\ Len(last.ret[1].submitted.inputs)
             = Min({last.arg.max_utxos, Cardinality(NotDust(last.arg))})
       /\ Len(last.ret[1].submitted.outputs) = 1
       /\ last.ret[1].submitted.outputs[1].address = Dest
       /\ last.ret[1].submitted.fee
             = ((125 + 125 * Len(last.ret[1].submitted.inputs)) * last.arg.fee_per_kb) \div 1024
       /\ last.ret[1].submitted.outputs[1].amount
             = SumInputs(last.ret[1].submitted.inputs) - last.ret[1].submitted.fee
       /\ last.ret[1].submitted.change = 0
       /\ Cardinality(keys) = last.arg.nkeys

\* the sum of the outputs at or above the dust threshold, and the fee for them
SweptTotal(a) == SumPairs({<<e, e.value>> : e \in NotDust(a)})
SweptFee(a) == ((125 + 125 * Cardinality(NotDust(a))) * a.fee_per_kb) \div 1024

\* C39: a sweep whose scope holds no unspent output at or above the dust
\* threshold, or whose swept total does not exceed the fee, ends without a
\* call of the provider and without a change of the store.
C39_SweepNothing ==
    (/\ last.op = "sweep"
     /\ \/ NotDust(last.arg) = {}
        \/ /\ Cardinality(NotDust(last.arg)) <= last.arg.max_utxos
           /\ SweptTotal(last.arg) <= SweptFee(last.arg))
    => last.provider = 0 /\ ~last.arg.changed

(***************************************************************************)
(* scan on the funded wallet.                                              *)
(***************************************************************************)
MaxScanCalls == 2
MaxScanDepth == 2

\* the levels at which the chain has something for the payment keys and for
\* the change keys: none, some, and more than the recursion cap allows
ScanFinds == {<<a, b>> : a \in {0, 1, RecursionCap + 1}, b \in {0, 2, RecursionCap + 1}}

ScanDone(w, r, arg) ==
    /\ Store(r.db)
    /\ last' = DidWith("scan", w, r.err # "", <<[err |-> r.err, trace |-> r.trace]>>, arg, 0)
    /\ UNCHANGED <<balances, given, held, sessions, threads>>

\* the chain gives each transaction to one address: a scan that found
\* something is not repeated
Scan(w, scan_depth, finds) ==
    /\ \A t \in txs : \A c \in 1..2 : t.hash \notin Range(ScanHashes[c])
    /\ ScanDone(w, scan(DB, Self(DB, w), scan_depth, Nil, 0, finds, <<>>),
                [scan_depth |-> scan_depth, finds |-> finds])

NextScan ==
    \/ \E w \in WalletIds, scan_depth \in 1..MaxScanDepth, finds \in ScanFinds :
          Call(MaxScanCalls) /\ Scan(w, scan_depth, finds)
    \/ \E w \in WalletIds, change \in {0, 1} : Call(MaxScanCalls) /\ NewKeyOf(w, change)

SpecScan == InitLedger /\ [][NextScan]_vars

\* C34: scan ends, normally or with a WalletError; each branch it runs gets
\* scan_depth keys and calls utxos_update once for each of them; a deeper level
\* of a branch follows only a level of that branch that counted a new UTXO;
\* the nesting stays within the recursion cap; and a chain that has a new UTXO
\* at every level ends the call with a WalletError.
C34_ScanTerminates ==
    last.op = "scan"
    => /\ last.ret[1].err \in {"", "WalletError"}
       /\ \A i \in DOMAIN last.ret[1].trace :
             /\ last.ret[1].trace[i].keys = last.arg.scan_depth
             /\ last.ret[1].trace[i].updates = last.arg.scan_depth
             /\ last.ret[1].trace[i].level - 1 <= RecursionCap
             /\ last.ret[1].trace[i].level > 1
                => /\ i > 1
                   /\ last.ret[1].trace[i - 1].found > 0
                   /\ last.ret[1].trace[i - 1].change = last.ret[1].trace[i].change
                   /\ last.ret[1].trace[i - 1].level = last.ret[1].trace[i].level - 1
       /\ last.arg.finds[1] > RecursionCap => last.ret[1].err = "WalletError"

\* at most one Transaction row for a (wallet, hash) and one output row for a
\* (transaction, output_n)
RowsUnique ==
    /\ \A t, u \in txs : (t.wallet_id = u.wallet_id /\ t.hash = u.hash) => t.id = u.id
    /\ \A o, p \in outs :
          (o.transaction_id = p.transaction_id /\ o.output_n = p.output_n) => o.id = p.id

\* C35: a utxos_update that follows a utxos_update of the same wallet with the
\* same provider list and the same filter inserts no Transaction row and no
\* output row, returns 0, and leaves the spent flags, the key bindings, the used
\* flags and the key balances as the first call left them.
C35_SecondUpdateIdle ==
    [][(/\ calls' = calls + 1
        /\ last.op = "utxos_update" /\ ~last.raised
        /\ last'.op = "utxos_update" /\ ~last'.raised
        /\ last'.w = last.w /\ last'.arg = last.arg)
       => /\ txs' = txs /\ outs' = outs /\ keys' = keys
          /\ last'.ret = <<0>>
          /\ RowsUnique']_vars

\* the second call repeated a utxos_update that had inserted the three
\* bitcoin outputs
C35_Witness ==
    /\ calls = 2 /\ last.op = "utxos_update" /\ ~last.raised
    /\ last.arg.list = <<UtxoA, UtxoB, UtxoB2>> /\ last.ret = <<0>>
    /\ \A h \in {"H1", "H2", "H3"} : \E o \in OutputsOfHash(h) : o.spent = "false"

(***************************************************************************)
(* utxos_update restricted by change or by used.                           *)
(***************************************************************************)
MaxRestrictCalls == 3

\* the address of the first change key of the bitcoin account, and what the
\* chain holds for it
ChangeAddress ==
    P2pkhAddress(PublicHex(HDKey(1, <<[i |-> DefaultPurpose, h |-> TRUE], [i |-> 0, h |-> TRUE],
                                      [i |-> 0, h |-> TRUE], [i |-> 1, h |-> FALSE],
                                      [i |-> 0, h |-> FALSE]>>,
                                 TRUE, "bip32", DEFAULT_NETWORK)))
UtxoC ==
    [tx_hash |-> "H6", output_n |-> 0, value |-> 500, confirmations |-> 5,
     address |-> ChangeAddress]

\* the addresses utxos_update asks the provider about when it is called with
\* change and used
RestrictedAddresses(db, self, d, f) ==
    {r.address : r \in WalletKeys(db, self, [KF EXCEPT !.account_id = d.account_id,
                                                       !.network = d.network,
                                                       !.change = f.change,
                                                       !.used = f.used,
                                                       !.depth = SchemeDepth(self),
                                                       !.is_active = FALSE])}

Restrictions ==
    {[change |-> 0, used |-> "None"], [change |-> 1, used |-> "None"],
     [change |-> Nil, used |-> "True"]}

\* utxos_update(change=f.change, used=f.used): the provider answers for the
\* restricted address list; the rest of the call does not read the restriction
UtxosUpdateBy(w, f, list, pick) ==
    /\ \A i \in 1..Len(list) :
          list[i].address \in RestrictedAddresses(DB, Self(DB, w),
                                                  get_account_defaults(DB, Self(DB, w), "", Nil),
                                                  f)
    /\ LedgerResult("utxos_update", w,
                    utxos_update(DB, Cached(w), Self(DB, w), Nil, "", Nil, Answer(list), pick),
                    [network |-> "", list |-> list, by |-> f])

NextRestrict ==
    \/ \E w \in WalletIds, f \in Restrictions,
          list \in {<<>>, <<UtxoA>>, <<UtxoC>>, <<UtxoA, UtxoB>>} :
          Call(MaxRestrictCalls) /\ UtxosUpdateBy(w, f, list, "first")
    \/ \E w \in WalletIds, list \in {<<UtxoA>>, <<UtxoA, UtxoC>>, <<UtxoA, UtxoB, UtxoC>>} :
          Call(MaxRestrictCalls) /\ UtxosUpdateOf(w, "", list, "first")
    \/ \E w \in WalletIds, change \in {0, 1} :
          Call(MaxRestrictCalls) /\ NewKeyOf(w, change)

SpecRestrict == InitLedger /\ [][NextRestrict]_vars

\* a key the restriction of the call leaves out
LeftOut(k, f) ==
    \/ f.change # Nil /\ k.change # f.change
    \/ f.used # "None" /\ k.used # (f.used = "True")

\* C36: a utxos_update restricted by change or by used leaves unspent every
\* unspent output of a key of the same account that the restriction leaves out.
C36_RestrictedFrame ==
    [][(/\ calls' = calls + 1 /\ last'.op = "utxos_update" /\ ~last'.raised
        /\ "by" \in DOMAIN last'.arg)
       => \A o \in utxos(DB, Self(DB, last'.w),
                         get_account_defaults(DB, Self(DB, last'.w), "", Nil), 0, Nil) :
             LeftOut(KeyRow(DB, o.key_id), last'.arg.by)
             => \E p \in outs' : p.id = o.id /\ p.spent = "false"]_vars

(***************************************************************************)
(* Two wallets in one store that see the same transaction.                 *)
(***************************************************************************)
MaxSharedCalls == 3

\* the funded wallet and a second bip44 wallet with one address
SharedSecond ==
    create(LedgerFunded(NextId({})).db, WalletName("b", Nil), MasterKey(2, DEFAULT_NETWORK),
           "", 0, DefaultPurpose, "bip44", 0, FALSE)
SharedKeyed == LedgerKey(SharedSecond, SharedSecond.wallet_id, "")

InitShared ==
    LedgerStart(NextId({}), [db |-> SharedKeyed.db, obj |-> LedgerFunded(NextId({})).obj])

\* the first bitcoin address of the wallet on master key root
FirstAddress(root) ==
    P2pkhAddress(PublicHex(HDKey(root, <<[i |-> DefaultPurpose, h |-> TRUE],
                                         [i |-> 0, h |-> TRUE], [i |-> 0, h |-> TRUE],
                                         [i |-> 0, h |-> FALSE], [i |-> 0, h |-> FALSE]>>,
                                 TRUE, "bip32", DEFAULT_NETWORK)))

\* H9 pays from the first address of the first wallet to the first address
\* of the second wallet
SharedPayment ==
    [hash |-> "H9", confirmations |-> 3,
     inputs |-> <<[address |-> FirstAddress(1), input_n |-> 0, value |-> 1000,
                   prev_hash |-> "H1"]>>,
     outputs |-> <<[address |-> FirstAddress(2), output_n |-> 0, value |-> 900,
                    spent |-> "false"]>>]
SharedUtxo ==
    [tx_hash |-> "H9", output_n |-> 0, value |-> 900, confirmations |-> 3,
     address |-> FirstAddress(2)]
SharedFunding ==
    [tx_hash |-> "H1", output_n |-> 0, value |-> 1000, confirmations |-> 10,
     address |-> FirstAddress(1)]

OwnAddresses(w) ==
    addresslist(DB, Self(DB, w), get_account_defaults(DB, Self(DB, w), "", Nil), Nil,
                SchemeDepth(Self(DB, w)))

\* transactions_update(): the provider lists the transactions that touch an
\* address of the wallet
SharedTransactionsUpdate(w, list) ==
    /\ \A i \in 1..Len(list) :
          \/ \E j \in DOMAIN list[i].inputs : list[i].inputs[j].address \in OwnAddresses(w)
          \/ \E j \in DOMAIN list[i].outputs : list[i].outputs[j].address \in OwnAddresses(w)
    /\ StoreResult("transactions_update", w, transactions_update(DB, Self(DB, w), Answer(list)),
                   [network |-> "", hashes |-> {list[i].hash : i \in DOMAIN list}])

SharedUtxosUpdate(w, list, pick) ==
    /\ \A i \in 1..Len(list) : list[i].address \in OwnAddresses(w)
    /\ LedgerResult("utxos_update", w,
                    utxos_update(DB, Cached(w), Self(DB, w), Nil, "", Nil, Answer(list), pick),
                    [network |-> "", hashes |-> {list[i].tx_hash : i \in DOMAIN list}])

NextShared ==
    \/ \E w \in WalletIds, list \in {<<>>, <<SharedPayment>>} :
          Call(MaxSharedCalls) /\ SharedTransactionsUpdate(w, list)
    \/ \E w \in WalletIds, list \in {<<>>, <<SharedUtxo>>, <<SharedFunding>>},
          pick \in {"first", "last"} :
          Call(MaxSharedCalls) /\ SharedUtxosUpdate(w, list, pick)
    \/ \E w \in WalletIds : Call(MaxSharedCalls) /\ NewKeyOf(w, 0)

SpecShared == InitShared /\ [][NextShared]_vars

\* C37: every output row and input row that is bound to a key belongs to a
\* Transaction row of the wallet of that key, and a wallet that has ingested a
\* transaction hash has a Transaction row of its own for it.
C37_RowsOfOwnWallet ==
    /\ \A o \in outs :
          (~Falsy(o.key_id) /\ HasKey(DB, o.key_id))
          => TxOf(DB, o).wallet_id = KeyRow(DB, o.key_id).wallet_id
    /\ \A i \in ins :
          (~Falsy(i.key_id) /\ HasKey(DB, i.key_id))
          => TxOf(DB, i).wallet_id = KeyRow(DB, i.key_id).wallet_id
    /\ (last.op \in {"transactions_update", "utxos_update"} /\ ~last.raised)
       => \A h \in last.arg.hashes : \E t \in txs : t.wallet_id = last.w /\ t.hash = h

(***************************************************************************)
(* get_key for several keys, of payment and change keys.                   *)
(***************************************************************************)
MaxGetKeyCalls == 3

NextGetKey ==
    \/ \E w \in WalletIds, change \in {0, 1} :
          Call(MaxGetKeyCalls) /\ NewKeyOf(w, change)
    \/ \E w \in WalletIds, change \in {0, 1}, n \in 2..3 :
          Call(MaxGetKeyCalls) /\ GetKeyOf(w, change, n)
    \/ \E w \in WalletIds, list \in AddressTxLists :
          Call(MaxGetKeyCalls) /\ TransactionsUpdate(w, "", Answer(list))

SpecGetKey == InitAddress /\ [][NextGetKey]_vars

\* the keys of the scope of a get_key call of wallet w: default account and
\* network, the given change, address depth
GetKeyScope(db, w, change) ==
    {r \in db.keys : /\ r.wallet_id = w
                     /\ r.account_id = get_account_defaults(db, Self(db, w), "", Nil).account_id
                     /\ r.network_name = get_account_defaults(db, Self(db, w), "", Nil).network
                     /\ r.change = change
                     /\ r.depth = AddressDepth}

\* C38: get_key(number_of_keys = n) with n > 1 on a bip44 wallet returns n
\* pairwise distinct keys of the scope, each unused and with an id above the id
\* of the last used key of the scope, and derives only as many keys as the
\* unused keys after the last used one do not cover.
C38_GetKeyList ==
    [][(/\ calls' = calls + 1 /\ last'.op = "get_key" /\ ~last'.raised
        /\ last'.arg.number_of_keys > 1)
       => /\ Len(last'.ret) = last'.arg.number_of_keys
          /\ \A i, j \in DOMAIN last'.ret : i # j => last'.ret[i] # last'.ret[j]
          /\ \A i \in DOMAIN last'.ret :
                \E k \in GetKeyScope(DB', last'.w, last'.arg.change) :
                   /\ k.id = last'.ret[i]
                   /\ ~k.used
                   /\ \A u \in GetKeyScope(DB', last'.w, last'.arg.change) :
                         u.used => u.id < k.id
          /\ Cardinality(keys') - Cardinality(keys)
                = Max({0, last'.arg.number_of_keys
                          - Cardinality({k \in GetKeyScope(DB, last'.w, last'.arg.change) :
                                /\ ~k.used
                                /\ \A u \in GetKeyScope(DB, last'.w, last'.arg.change) :
                                      u.used => u.id < k.id})})]_vars

\* get_key for three change keys popped the two stored unused keys, the
\* newer one first, and derived the third, after the oldest change key
\* became used
C38_Witness ==
    /\ last.op = "get_key" /\ ~last.raised
    /\ last.arg.number_of_keys = 3 /\ last.arg.change = 1
    /\ \E k \in GetKeyScope(DB, last.w, 1) : k.used /\ k.id < Min(Range(last.ret))
    /\ last.ret[1] > last.ret[2]
    /\ last.ret[3] = Max({k.id : k \in keys})

====
